---- MODULE Spec2Model ----
(***************************************************************************)
(* Configuration and authentication-precedence model of the kittycad CLI.  *)
(*                                                                         *)
(*   Spec            the environment overlay (envConfig) over the file     *)
(*                   config, the API client built from it, and the `auth   *)
(*                   login` / `auth logout` commands                       *)
(*   SpecConfigFunc  the process-wide memoized config accessor             *)
(*   SpecMain        mainRun and its background update-check goroutine     *)
(*   SpecUpdate      CheckForUpdate and its state.yml throttle             *)
(*   SpecDir         Dir, StateDir, DataDir and the legacy migration       *)
(*   SpecStore       parseConfig, Set and the two-file Write               *)
(*   SpecAlias       `alias set` and its validation                        *)
(*   SpecAliasConfig AliasConfig's Add, Delete and All                     *)
(*   SpecConfCmd     `config get` and `config set`                         *)
(*   SpecRace        StateDir in the goroutine against Dir in the main path*)
(***************************************************************************)
EXTENDS Naturals, Sequences, FiniteSets, TLC

VARIABLES
    env,        \* process environment: KITTYCAD_TOKEN, KITTYCAD_API_TOKEN, KITTYCAD_HOST
    cfg,        \* in-memory document of the wrapped file config: [main, hosts]
    disk,       \* the two persisted documents: [main, hosts]
    ret,        \* the last call made on the overlay and what it returned
    ops,        \* number of overlay calls and commands started so far
    cmdPc,      \* position of the running auth command ("idle" when none)
    cmdOpts,    \* the command's options: [Hostname, Token, Interactive, CanPrompt]
    cmdHost,    \* the command's local variable hostname
    trace,      \* the calls the running command has made (config, API, prompt), in order
    stderr,     \* what the running command has printed on stderr
    cmdRet,     \* the error the command returned ("" is nil, "running" while it runs)
    fsConfig,       \* what the config files on disk hold now: [kind, content]
    cachedConfig,   \* configFunc's captured variable cachedConfig
    configError,    \* configFunc's captured variable configError ("" is nil)
    parseCalls,     \* number of calls of ParseDefaultConfig so far
    configCalls,    \* number of calls of the accessor so far
    firstResult,    \* what the first call of the accessor returned
    lastResult,     \* what the latest call of the accessor returned
    mainPc,         \* position of mainRun
    updPc,          \* position of the update-check goroutine
    updRel,         \* the release the goroutine found ("nil" when none)
    newRelease,     \* mainRun's local newRelease
    recvCount,      \* number of receives from updateMessageChan so far
    outcome,        \* how rootCmd.ExecuteC ended ("none" until it has)
    exitCode,       \* <<code>> once mainRun has returned, <<>> before
    authCheck,      \* IsAuthCheckEnabled(cmd) of the command run ("unknown" before)
    stateFile,      \* state.yml: [kind, at, release]
    clock,          \* the wall clock, in ticks of TickHours hours
    checks,         \* number of calls of CheckForUpdate so far
    chk,            \* the latest call of CheckForUpdate: what it saw and did
    fetchedAt,      \* the times at which a release was fetched
    recordedAt,     \* the times at which a fetch was recorded in state.yml
    dirEnv,         \* what the directory functions read: path variables, home, GOOS
    dirFs,          \* the filesystem: [dirs, files (directories holding state.yml), io]
    dirRet,         \* the latest call of Dir/StateDir/DataDir: what it saw and did
    dirFirst,       \* for each of the three functions, the path its first call returned
    cfgFiles,       \* config.yml and hosts.yml on disk: [main, hosts]
    root,           \* the document tree of the loaded fileConfig: [loaded, content]
    loadRet,        \* what the latest parseConfig saw and returned
    setLog,         \* the <<host, key, value>> set on the tree and still in force
    saved,          \* setLog as it was at the latest Write() that succeeded
    writePc,        \* position of the running Write() ("idle" when none)
    writes,         \* number of Write() calls started so far
    sets,           \* number of Set calls so far
    aliasCfg,       \* the `aliases` mapping of the loaded config: [node, entries]
    aliasWrites,    \* number of Write() calls made through the AliasConfig so far
    aliasCalls,     \* number of `alias set` runs so far
    aliasRet,       \* the latest `alias set` run: its options and what it did
    aliasOp,        \* the latest call made on the AliasConfig itself and what it did
    aliasSaved,     \* the document the latest Write() was given: [attempted, doc]
    stub,           \* the config.Stub the config commands run on: <<host, key, value>>
    stubWrites,     \* number of Write() calls made on the stub so far
    confCalls,      \* number of `config get` / `config set` runs so far
    confRet,        \* the latest such run: its options, output and error
    racePc,         \* where the main path is in Dir() and the goroutine in StateDir()
    raceStart       \* the filesystem as it was when the two calls started

envVars == <<env, cfg, disk, ret, ops, cmdPc, cmdOpts, cmdHost, trace, stderr, cmdRet>>

configVars ==
    <<fsConfig, cachedConfig, configError, parseCalls, configCalls, firstResult, lastResult>>

mainVars == <<mainPc, updPc, updRel, newRelease, recvCount, outcome, exitCode, authCheck>>

updateVars == <<stateFile, clock, checks, chk, fetchedAt, recordedAt>>

dirVars == <<dirEnv, dirFs, dirRet, dirFirst>>

storeVars == <<cfgFiles, root, loadRet, setLog, saved, writePc, writes, sets>>

aliasVars == <<aliasCfg, aliasWrites, aliasCalls, aliasRet, aliasOp, aliasSaved>>

confVars == <<stub, stubWrites, confCalls, confRet>>

raceVars == <<racePc, raceStart>>

extVars == <<updateVars, dirVars, storeVars, aliasVars, confVars, raceVars>>

vars == <<envVars, configVars, mainVars, extVars>>

notEnvVars == <<configVars, mainVars, extVars>>
notConfigVars == <<envVars, mainVars, extVars>>
notMainVars == <<envVars, configVars, extVars>>
coreVars == <<envVars, configVars, mainVars>>
notUpdateVars == <<coreVars, dirVars, storeVars, aliasVars, confVars, raceVars>>
notDirVars == <<coreVars, updateVars, storeVars, aliasVars, confVars, raceVars>>
notStoreVars == <<coreVars, updateVars, dirVars, aliasVars, confVars, raceVars>>
notAliasVars == <<coreVars, updateVars, dirVars, storeVars, confVars, raceVars>>
notConfVars == <<coreVars, updateVars, dirVars, storeVars, aliasVars, raceVars>>

----------------------------------------------------------------------------
(* Program constants *)

KittyCADHostEnvVar == "KITTYCAD_HOST"
KittyCADTokenEnvVar == "KITTYCAD_TOKEN"
KittyCADAPITokenEnvVar == "KITTYCAD_API_TOKEN"
KittyCADDefaultHost == "api.kittycad.io"

ConfigFileSource == "config.yml"
HostsFileSource == "hosts.yml"

(* Bounds *)

MaxOps == 2
MaxConfigCalls == 4

OtherHost == "example.org"
Hostnames == {KittyCADDefaultHost, OtherHost}
HostArgs == Hostnames \cup {""}
Keys == {"token", "pager"}
FileToken == "FTOK"
NewToken == "NTOK"
EnvTokenValues == {"", "ETOK"}
EnvAPITokenValues == {"", "ATOK"}
EnvHostValues == {"", "env.kittycad.io"}
SessionEmail == "me@example.org"

----------------------------------------------------------------------------
(* ConfigMap: an ordered mapping kept as a sequence of <<key, value>> pairs *)

KeyIndex(m, key) ==
    IF \E i \in 1..Len(m) : m[i][1] = key
    THEN CHOOSE i \in 1..Len(m) : m[i][1] = key /\ \A j \in 1..(i-1) : m[j][1] # key
    ELSE 0

GetStringValue(m, key) ==
    IF KeyIndex(m, key) = 0
    THEN [value |-> "", found |-> FALSE]
    ELSE [value |-> m[KeyIndex(m, key)][2], found |-> TRUE]

SetStringValue(m, key, value) ==
    IF KeyIndex(m, key) = 0
    THEN Append(m, <<key, value>>)
    ELSE [m EXCEPT ![KeyIndex(m, key)] = <<key, value>>]

RemoveEntry(m, key) == SelectSeq(m, LAMBDA p : p[1] # key)

(* The hosts section: a sequence of [host, entries] in document order *)

HostIndex(hs, hostname) ==
    IF \E i \in 1..Len(hs) : hs[i].host = hostname
    THEN CHOOSE i \in 1..Len(hs) : hs[i].host = hostname /\ \A j \in 1..(i-1) : hs[j].host # hostname
    ELSE 0

----------------------------------------------------------------------------
(* fileConfig: the wrapped, file-backed Config *)

DefaultFor(key) == IF key = "prompt" THEN "enabled" ELSE ""

\* A key present at host scope wins; a host's token never falls back to the
\* global section; other keys fall back to the global section, then to the
\* option's default.
FileGetWithSource(c, hostname, key) ==
    LET i == IF hostname = "" THEN 0 ELSE HostIndex(c.hosts, hostname)
        hv == IF i = 0 THEN [value |-> "", found |-> FALSE]
              ELSE GetStringValue(c.hosts[i].entries, key)
        gv == GetStringValue(c.main, key)
    IN  IF hv.found
        THEN [val |-> hv.value, src |-> HostsFileSource, err |-> ""]
        ELSE IF hostname # "" /\ key = "token"
        THEN [val |-> "", src |-> ConfigFileSource, err |-> ""]
        ELSE IF gv.found
        THEN [val |-> gv.value, src |-> ConfigFileSource, err |-> ""]
        ELSE [val |-> DefaultFor(key), src |-> ConfigFileSource, err |-> ""]

FileSet(c, hostname, key, value) ==
    IF hostname = ""
    THEN [c EXCEPT !.main = SetStringValue(c.main, key, value)]
    ELSE IF HostIndex(c.hosts, hostname) = 0
         THEN [c EXCEPT !.hosts = Append(c.hosts,
                    [host |-> hostname, entries |-> <<<<key, value>>>>])]
         ELSE [c EXCEPT !.hosts[HostIndex(c.hosts, hostname)].entries =
                    SetStringValue(@, key, value)]

FileUnsetHost(c, hostname) ==
    IF hostname = ""
    THEN c
    ELSE [c EXCEPT !.hosts = SelectSeq(c.hosts, LAMBDA e : e.host # hostname)]

FileHosts(c) == [list |-> [i \in 1..Len(c.hosts) |-> c.hosts[i].host], err |-> ""]

FileDefaultHostWithSource(c) == [val |-> KittyCADDefaultHost, src |-> "default", err |-> ""]

FileCheckWriteable(c, hostname, key) == [kind |-> "", Variable |-> ""]

\* Write splits the document in two and persists both, main first; a failed
\* first write returns before the second file is touched.
WriteOutcomes == {"ok", "main fails", "hosts fails"}

FileWrite(c, d, io) ==
    IF io = "main fails" THEN [disk |-> d, err |-> "IOError"]
    ELSE IF io = "hosts fails" THEN [disk |-> [d EXCEPT !.main = c.main], err |-> "IOError"]
    ELSE [disk |-> [main |-> c.main, hosts |-> c.hosts], err |-> ""]

----------------------------------------------------------------------------
(* envConfig: the environment overlay *)

\* Mutant: the two token variables consulted in the opposite order.
AuthTokenFromEnvAPIFirst(e, hostname) ==
    IF e.KITTYCAD_API_TOKEN # ""
    THEN [token |-> e.KITTYCAD_API_TOKEN, env |-> KittyCADAPITokenEnvVar]
    ELSE [token |-> e.KITTYCAD_TOKEN, env |-> KittyCADTokenEnvVar]

AuthTokenFromEnv(e, hostname) ==
    IF e.KITTYCAD_TOKEN # ""
    THEN [token |-> e.KITTYCAD_TOKEN, env |-> KittyCADTokenEnvVar]
    ELSE [token |-> e.KITTYCAD_API_TOKEN, env |-> KittyCADAPITokenEnvVar]

AuthTokenProvidedFromEnv(e) == e.KITTYCAD_TOKEN # "" \/ e.KITTYCAD_API_TOKEN # ""

EnvGetWithSource(e, c, hostname, key) ==
    IF hostname # "" /\ key = "token" /\ AuthTokenFromEnv(e, hostname).token # ""
    THEN [val |-> AuthTokenFromEnv(e, hostname).token,
          src |-> AuthTokenFromEnv(e, hostname).env, err |-> "", delegated |-> FALSE]
    ELSE [val |-> FileGetWithSource(c, hostname, key).val,
          src |-> FileGetWithSource(c, hostname, key).src,
          err |-> FileGetWithSource(c, hostname, key).err, delegated |-> TRUE]

EnvGet(e, c, hostname, key) ==
    [val |-> EnvGetWithSource(e, c, hostname, key).val,
     err |-> EnvGetWithSource(e, c, hostname, key).err,
     delegated |-> EnvGetWithSource(e, c, hostname, key).delegated]

\* Mutant: the read-only check applied to the default host alone.
EnvCheckWriteableDefaultHostOnly(e, c, hostname, key) ==
    IF hostname = KittyCADDefaultHost /\ key = "token"
       /\ AuthTokenFromEnv(e, hostname).token # ""
    THEN [kind |-> "ReadOnlyEnvError", Variable |-> AuthTokenFromEnv(e, hostname).env]
    ELSE FileCheckWriteable(c, hostname, key)

EnvCheckWriteable(e, c, hostname, key) ==
    IF hostname # "" /\ key = "token" /\ AuthTokenFromEnv(e, hostname).token # ""
    THEN [kind |-> "ReadOnlyEnvError", Variable |-> AuthTokenFromEnv(e, hostname).env]
    ELSE FileCheckWriteable(c, hostname, key)

\* Mutant: the default host prepended without looking for it in the wrapped list.
EnvHostsAlwaysPrepend(e, c) ==
    LET w == FileHosts(c)
        token == AuthTokenFromEnv(e, KittyCADDefaultHost).token
    IN  IF token # ""
        THEN [list |-> <<KittyCADDefaultHost>> \o w.list, err |-> ""]
        ELSE w

EnvHosts(e, c) ==
    LET w == FileHosts(c)
        hasDefault == \E i \in 1..Len(w.list) : w.list[i] = KittyCADDefaultHost
        token == AuthTokenFromEnv(e, KittyCADDefaultHost).token
    IN  IF (w.err # "" \/ ~hasDefault) /\ token # ""
        THEN [list |-> <<KittyCADDefaultHost>> \o w.list, err |-> ""]
        ELSE w

\* Mutant: KITTYCAD_HOST ignored.
EnvDefaultHostWithSourceNoEnv(e, c) == FileDefaultHostWithSource(c)

EnvDefaultHostWithSource(e, c) ==
    IF e.KITTYCAD_HOST # ""
    THEN [val |-> e.KITTYCAD_HOST, src |-> KittyCADHostEnvVar, err |-> ""]
    ELSE FileDefaultHostWithSource(c)

EnvDefaultHost(e, c) ==
    [val |-> EnvDefaultHostWithSource(e, c).val, err |-> EnvDefaultHostWithSource(e, c).err]

\* envConfig embeds Config and declares no Set, UnsetHost or Write of its own:
\* the three are the wrapped config's methods.
EnvSet(e, c, hostname, key, value) == [cfg |-> FileSet(c, hostname, key, value), err |-> ""]

EnvUnsetHost(e, c, hostname) == FileUnsetHost(c, hostname)

EnvWrite(e, c, d, io) == FileWrite(c, d, io)

----------------------------------------------------------------------------
(* The API client *)

BaseURLFor(hostname) ==
    IF hostname = KittyCADDefaultHost THEN "default" ELSE "https://" \o hostname

\* Mutant: the token looked up under the hostname as given, before the default
\* host has taken the place of an empty one.
NewKittyCADClientTokenOfArgument(e, c, hostname) ==
    LET d == EnvDefaultHost(e, c)
        host == IF hostname = "" THEN d.val ELSE hostname
        envToken == AuthTokenFromEnv(e, hostname).token
        token == IF envToken # "" THEN envToken ELSE EnvGet(e, c, hostname, "token").val
    IN  IF hostname = "" /\ d.err # ""
        THEN [host |-> "", token |-> "", baseURL |-> "", err |-> "error getting default hostname"]
        ELSE [host |-> host, token |-> token, baseURL |-> BaseURLFor(host), err |-> ""]

\* The host is the one given or, when none is given, the config's default
\* host; the token is the environment's or else the config's token of that host.
NewKittyCADClient(e, c, hostname) ==
    LET d == EnvDefaultHost(e, c)
        host == IF hostname = "" THEN d.val ELSE hostname
        envToken == AuthTokenFromEnv(e, host).token
        token == IF envToken # "" THEN envToken ELSE EnvGet(e, c, host, "token").val
    IN  IF hostname = "" /\ d.err # ""
        THEN [host |-> "", token |-> "", baseURL |-> "", err |-> "error getting default hostname"]
        ELSE [host |-> host, token |-> token, baseURL |-> BaseURLFor(host), err |-> ""]

----------------------------------------------------------------------------
(* Initial state: the environment of the process and a config loaded from disk *)

BlankMain == << <<"prompt", "enabled">>, <<"pager", "">> >>

HostEntry(hostname, token) == [host |-> hostname, entries |-> << <<"token", token>> >>]

InitHostDocs ==
    { <<>>,
      <<HostEntry(KittyCADDefaultHost, FileToken)>>,
      <<HostEntry(KittyCADDefaultHost, "")>>,
      <<HostEntry(OtherHost, FileToken)>>,
      <<HostEntry(KittyCADDefaultHost, FileToken), HostEntry(OtherHost, FileToken)>>,
      <<HostEntry(OtherHost, FileToken), HostEntry(KittyCADDefaultHost, FileToken)>> }

Environments ==
    [KITTYCAD_TOKEN : EnvTokenValues, KITTYCAD_API_TOKEN : EnvAPITokenValues,
     KITTYCAD_HOST : EnvHostValues]

NoRet ==
    [op |-> "none", host |-> "", key |-> "", val |-> "", src |-> "", err |-> "",
     errVar |-> "", delegated |-> FALSE, list |-> <<>>,
     before |-> <<>>, diskBefore |-> <<>>]

NoOpts == [Hostname |-> "", Token |-> "", Interactive |-> FALSE, CanPrompt |-> FALSE]

EnvInit ==
    /\ env \in Environments
    /\ \E hs \in InitHostDocs : cfg = [main |-> BlankMain, hosts |-> hs]
    /\ disk = cfg
    /\ ret = NoRet
    /\ ops = 0
    /\ cmdPc = "idle"
    /\ cmdOpts = NoOpts
    /\ cmdHost = ""
    /\ trace = <<>>
    /\ stderr = <<>>
    /\ cmdRet = ""

Nil == [kind |-> "nil"]

NoResult == [config |-> Nil, err |-> "none"]

ConfigIdle ==
    /\ fsConfig = [kind |-> "valid", content |-> 1]
    /\ cachedConfig = Nil
    /\ configError = ""
    /\ parseCalls = 0
    /\ configCalls = 0
    /\ firstResult = NoResult
    /\ lastResult = NoResult

MainIdle ==
    /\ mainPc = "off"
    /\ updPc = "off"
    /\ updRel = "nil"
    /\ newRelease = "nil"
    /\ recvCount = 0
    /\ outcome = "none"
    /\ exitCode = <<>>
    /\ authCheck = "unknown"

NoRelease == [kind |-> "none", patch |-> 0]

NoStateFile == [kind |-> "missing", at |-> 0, release |-> NoRelease]

NoCheck ==
    [before |-> NoStateFile, at |-> 0, requested |-> FALSE, fetched |-> "none",
     wrote |-> "none", rel |-> "nil", err |-> ""]

UpdateIdle ==
    /\ stateFile = NoStateFile
    /\ clock = 0
    /\ checks = 0
    /\ chk = NoCheck
    /\ fetchedAt = {}
    /\ recordedAt = {}

NoPath == <<>>

NoFs == [dirs |-> {}, files |-> {}, io |-> "ok"]

NoDirCall ==
    [op |-> "none", path |-> NoPath, before |-> NoFs, attempted |-> FALSE,
     migrated |-> "none", again |-> FALSE]

DirIdle ==
    /\ dirEnv = [n \in {"none"} |-> NoPath]
    /\ dirFs = NoFs
    /\ dirRet = NoDirCall
    /\ dirFirst = [o \in {"none"} |-> {}]

NoFile == [kind |-> "missing", root |-> "none", content |-> <<>>, ver |-> 0]

NoLoad ==
    [files |-> [main |-> NoFile, hosts |-> NoFile], loaded |-> FALSE, content |-> <<>>,
     err |-> "none"]

StoreIdle ==
    /\ cfgFiles = [main |-> NoFile, hosts |-> NoFile]
    /\ root = [loaded |-> FALSE, content |-> <<>>]
    /\ loadRet = NoLoad
    /\ setLog = {}
    /\ saved = {}
    /\ writePc = "idle"
    /\ writes = 0
    /\ sets = 0

EmptyLine == [bang |-> FALSE, words |-> <<>>, open |-> FALSE]

\* The main document as far as aliases are concerned: the top-level entries above
\* the `aliases` key, whether the key is there, its name/expansion pairs, and the
\* top-level entries below it.
NoAliases == [above |-> <<>>, node |-> FALSE, entries |-> <<>>, below |-> <<>>]

NoAliasOp ==
    [kind |-> "none", name |-> EmptyLine, expansion |-> EmptyLine, before |-> NoAliases,
     writesBefore |-> 0, io |-> "ok", err |-> "", listed |-> <<>>]

NoAliasRun ==
    [called |-> FALSE,
     opts |-> [Name |-> EmptyLine, Expansion |-> EmptyLine, IsShell |-> FALSE],
     stdin |-> [err |-> FALSE, data |-> EmptyLine], configOK |-> TRUE, tty |-> FALSE,
     before |-> NoAliases,
     err |-> [msg |-> "", arg |-> EmptyLine], wrote |-> FALSE, out |-> <<>>]

AliasIdle ==
    /\ aliasCfg = NoAliases
    /\ aliasWrites = 0
    /\ aliasCalls = 0
    /\ aliasRet = NoAliasRun
    /\ aliasOp = NoAliasOp
    /\ aliasSaved = [attempted |-> FALSE, doc |-> NoAliases]

NoConfErr == [msg |-> "", key |-> "", value |-> "", valid |-> <<>>]

NoConfRun ==
    [cmd |-> "none", opts |-> [Hostname |-> "", Key |-> "", Value |-> ""], before |-> {},
     writesBefore |-> 0, stdout |-> <<>>, stderr |-> <<>>, err |-> NoConfErr]

ConfIdle ==
    /\ stub = {}
    /\ stubWrites = 0
    /\ confCalls = 0
    /\ confRet = NoConfRun

RaceIdle ==
    /\ racePc = [main |-> "off", upd |-> "off"]
    /\ raceStart = NoFs

ExtIdle == UpdateIdle /\ DirIdle /\ StoreIdle /\ AliasIdle /\ ConfIdle /\ RaceIdle

Init == EnvInit /\ ConfigIdle /\ MainIdle /\ ExtIdle

----------------------------------------------------------------------------
(* Calls on the overlay made outside the auth commands *)

CallGuard == cmdPc \in {"idle", "done"} /\ ops < MaxOps

CallFrame ==
    /\ ops' = ops + 1
    /\ trace' = <<>>
    /\ stderr' = <<>>
    /\ cmdRet' = ""
    /\ cmdPc' = "idle"
    /\ cmdOpts' = NoOpts
    /\ cmdHost' = ""
    /\ UNCHANGED <<notEnvVars, env>>

Called(op, hostname, key) ==
    [NoRet EXCEPT !.op = op, !.host = hostname, !.key = key,
                  !.before = cfg, !.diskBefore = disk]

CallGetWithSource(hostname, key) ==
    /\ CallGuard
    /\ LET r == EnvGetWithSource(env, cfg, hostname, key)
       IN  ret' = [Called("GetWithSource", hostname, key) EXCEPT
                      !.val = r.val, !.src = r.src, !.err = r.err,
                      !.delegated = r.delegated]
    /\ CallFrame
    /\ UNCHANGED <<cfg, disk>>

CallGet(hostname, key) ==
    /\ CallGuard
    /\ LET r == EnvGet(env, cfg, hostname, key)
       IN  ret' = [Called("Get", hostname, key) EXCEPT
                      !.val = r.val, !.err = r.err, !.delegated = r.delegated]
    /\ CallFrame
    /\ UNCHANGED <<cfg, disk>>

CallCheckWriteable(hostname, key) ==
    /\ CallGuard
    /\ LET r == EnvCheckWriteable(env, cfg, hostname, key)
       IN  ret' = [Called("CheckWriteable", hostname, key) EXCEPT
                      !.err = r.kind, !.errVar = r.Variable]
    /\ CallFrame
    /\ UNCHANGED <<cfg, disk>>

CallHosts ==
    /\ CallGuard
    /\ LET r == EnvHosts(env, cfg)
       IN  ret' = [Called("Hosts", "", "") EXCEPT !.list = r.list, !.err = r.err]
    /\ CallFrame
    /\ UNCHANGED <<cfg, disk>>

CallDefaultHostWithSource ==
    /\ CallGuard
    /\ LET r == EnvDefaultHostWithSource(env, cfg)
       IN  ret' = [Called("DefaultHostWithSource", "", "") EXCEPT
                      !.val = r.val, !.src = r.src, !.err = r.err]
    /\ CallFrame
    /\ UNCHANGED <<cfg, disk>>

CallDefaultHost ==
    /\ CallGuard
    /\ LET r == EnvDefaultHost(env, cfg)
       IN  ret' = [Called("DefaultHost", "", "") EXCEPT !.val = r.val, !.err = r.err]
    /\ CallFrame
    /\ UNCHANGED <<cfg, disk>>

CallSet(hostname, key, value) ==
    /\ CallGuard
    /\ LET r == EnvSet(env, cfg, hostname, key, value)
       IN  /\ cfg' = r.cfg
           /\ ret' = [Called("Set", hostname, key) EXCEPT !.val = value, !.err = r.err]
    /\ CallFrame
    /\ UNCHANGED disk

CallUnsetHost(hostname) ==
    /\ CallGuard
    /\ cfg' = EnvUnsetHost(env, cfg, hostname)
    /\ ret' = Called("UnsetHost", hostname, "")
    /\ CallFrame
    /\ UNCHANGED disk

CallWrite ==
    /\ CallGuard
    /\ \E io \in WriteOutcomes :
         LET r == EnvWrite(env, cfg, disk, io)
         IN  /\ disk' = r.disk
             /\ ret' = [Called("Write", "", "") EXCEPT !.err = r.err]
    /\ CallFrame
    /\ UNCHANGED cfg

\* cli.KittyCADClient(hostname): the returned client's host is kept in ret.src,
\* its token in ret.val and the hostname asked for in ret.host.
CallKittyCADClient(hostname) ==
    /\ CallGuard
    /\ LET r == NewKittyCADClient(env, cfg, hostname)
       IN  ret' = [Called("KittyCADClient", hostname, "token") EXCEPT
                      !.src = r.host, !.val = r.token, !.err = r.err]
    /\ CallFrame
    /\ UNCHANGED <<cfg, disk>>

OverlayCall ==
    \/ \E h \in HostArgs, k \in Keys : CallGetWithSource(h, k)
    \/ \E h \in HostArgs, k \in Keys : CallGet(h, k)
    \/ \E h \in HostArgs, k \in Keys : CallCheckWriteable(h, k)
    \/ CallHosts
    \/ CallDefaultHostWithSource
    \/ CallDefaultHost
    \/ \E h \in HostArgs, k \in Keys : CallSet(h, k, NewToken)
    \/ \E h \in HostArgs : CallUnsetHost(h)
    \/ CallWrite
    \/ \E h \in HostArgs : CallKittyCADClient(h)

----------------------------------------------------------------------------
(* The auth commands.  A command runs to completion once started; each step  *)
(* is one call on its config together with the local code that follows it.   *)

Traced(op, hostname, key, err) == [op |-> op, host |-> hostname, key |-> key, err |-> err]

Guidance(variable, what) == [Variable |-> variable, advice |-> what]

CmdBegin(name, opts) ==
    /\ cmdPc \in {"idle", "done"}
    /\ ops < MaxOps
    /\ ops' = ops + 1
    /\ cmdOpts' = opts
    /\ ret' = [NoRet EXCEPT !.op = name, !.before = cfg, !.diskBefore = disk]
    /\ trace' = <<>>
    /\ stderr' = <<>>

CmdReturn(err) == cmdPc' = "done" /\ cmdRet' = err

PromptOutcomes == {"err", "no", "yes"}

\* `auth login`: the command's RunE, then loginRun up to its first call on the config.
LoginStart(hostFlag, tokenStdin, stdinToken, canPrompt, configOK) ==
    LET token == IF tokenStdin THEN stdinToken ELSE ""
        interactive == canPrompt /\ token = ""
        hostOpt == IF ~interactive /\ hostFlag = "" THEN KittyCADDefaultHost ELSE hostFlag
    IN  /\ CmdBegin("login", [Hostname |-> hostOpt, Token |-> token,
                              Interactive |-> interactive, CanPrompt |-> canPrompt])
        /\ IF ~canPrompt /\ ~tokenStdin
           THEN CmdReturn("FlagError") /\ cmdHost' = ""
           ELSE IF ~configOK
           THEN CmdReturn("ConfigError") /\ cmdHost' = ""
           ELSE IF hostOpt # ""
           THEN cmdPc' = "login_check" /\ cmdRet' = "running" /\ cmdHost' = hostOpt
           ELSE IF interactive
           THEN \/ CmdReturn("could not prompt") /\ cmdHost' = ""
                \/ \E h \in Hostnames :
                     cmdPc' = "login_check" /\ cmdRet' = "running" /\ cmdHost' = h
           ELSE CmdReturn("must specify --hostname") /\ cmdHost' = ""
        /\ UNCHANGED <<notEnvVars, env, cfg, disk>>

\* Mutant: the guidance is printed but loginRun does not return.
LoginCheckWriteableContinues ==
    /\ cmdPc = "login_check"
    /\ LET r == EnvCheckWriteable(env, cfg, cmdHost, "token")
       IN  /\ trace' = Append(trace, Traced("CheckWriteable", cmdHost, "token", r.kind))
           /\ stderr' = IF r.kind = "ReadOnlyEnvError"
                        THEN <<Guidance(r.Variable, "clear the value from the environment")>>
                        ELSE stderr
           /\ cmdRet' = cmdRet
           /\ cmdPc' = IF cmdOpts.Token # "" THEN "login_set" ELSE "login_get"
    /\ UNCHANGED <<notEnvVars, env, cfg, disk, ret, ops, cmdOpts, cmdHost>>

LoginCheckWriteable ==
    /\ cmdPc = "login_check"
    /\ LET r == EnvCheckWriteable(env, cfg, cmdHost, "token")
       IN  /\ trace' = Append(trace, Traced("CheckWriteable", cmdHost, "token", r.kind))
           /\ IF r.kind = "ReadOnlyEnvError"
              THEN /\ stderr' = <<Guidance(r.Variable, "clear the value from the environment")>>
                   /\ CmdReturn("ErrSilent")
              ELSE IF r.kind # ""
              THEN stderr' = stderr /\ CmdReturn(r.kind)
              ELSE /\ stderr' = stderr
                   /\ cmdRet' = cmdRet
                   /\ cmdPc' = IF cmdOpts.Token # "" THEN "login_set" ELSE "login_get"
    /\ UNCHANGED <<notEnvVars, env, cfg, disk, ret, ops, cmdOpts, cmdHost>>

LoginSetToken ==
    /\ cmdPc = "login_set"
    /\ LET r == EnvSet(env, cfg, cmdHost, "token", cmdOpts.Token)
       IN  /\ cfg' = r.cfg
           /\ trace' = Append(trace, Traced("Set", cmdHost, "token", r.err))
           /\ IF r.err # "" THEN CmdReturn(r.err)
              ELSE cmdPc' = "login_write" /\ cmdRet' = cmdRet
    /\ UNCHANGED <<notEnvVars, env, disk, ret, ops, cmdOpts, cmdHost, stderr>>

LoginWrite ==
    /\ cmdPc \in {"login_write", "flow_write"}
    /\ \E io \in WriteOutcomes :
         LET r == EnvWrite(env, cfg, disk, io)
         IN  /\ disk' = r.disk
             /\ trace' = Append(trace, Traced("Write", "", "", r.err))
             /\ CmdReturn(r.err)
    /\ UNCHANGED <<notEnvVars, env, cfg, ret, ops, cmdOpts, cmdHost, stderr>>

LoginGetExisting ==
    /\ cmdPc = "login_get"
    /\ LET existingToken == EnvGet(env, cfg, cmdHost, "token").val
       IN  /\ trace' = Append(trace, Traced("Get", cmdHost, "token", ""))
           /\ IF existingToken # "" /\ cmdOpts.Interactive
              THEN \E answer \in PromptOutcomes :
                     CASE answer = "err" -> CmdReturn("could not prompt")
                       [] answer = "no" -> CmdReturn("")
                       [] OTHER -> cmdPc' = "flow_prompt" /\ cmdRet' = cmdRet
              ELSE cmdPc' = "flow_prompt" /\ cmdRet' = cmdRet
    /\ UNCHANGED <<notEnvVars, env, cfg, disk, ret, ops, cmdOpts, cmdHost, stderr>>

\* Mutant: the token is written as soon as it has been typed.
FlowPromptSetAndWrite ==
    /\ cmdPc = "flow_prompt"
    /\ \/ /\ CmdReturn("could not prompt")
          /\ UNCHANGED <<cfg, trace>>
       \/ LET r == EnvSet(env, cfg, cmdHost, "token", NewToken)
          IN  /\ cfg' = r.cfg
              /\ trace' = Append(trace, Traced("Set", cmdHost, "token", r.err))
              /\ IF r.err # "" THEN CmdReturn(r.err)
                 ELSE cmdPc' = "flow_write" /\ cmdRet' = cmdRet
    /\ UNCHANGED <<notEnvVars, env, disk, ret, ops, cmdOpts, cmdHost, stderr>>

\* Flow: the token prompt and the Set of what was typed.
FlowPromptAndSet ==
    /\ cmdPc = "flow_prompt"
    /\ \/ /\ CmdReturn("could not prompt")
          /\ UNCHANGED <<cfg, trace>>
       \/ LET r == EnvSet(env, cfg, cmdHost, "token", NewToken)
          IN  /\ cfg' = r.cfg
              /\ trace' = Append(trace, Traced("Set", cmdHost, "token", r.err))
              /\ IF r.err # "" THEN CmdReturn(r.err)
                 ELSE cmdPc' = "flow_session" /\ cmdRet' = cmdRet
    /\ UNCHANGED <<notEnvVars, env, disk, ret, ops, cmdOpts, cmdHost, stderr>>

\* Flow: the client, the session request and the Set of the session's user.
FlowSession ==
    /\ cmdPc = "flow_session"
    /\ \/ /\ \E e \in {"ClientError", "HTTPError"} : CmdReturn(e)
          /\ UNCHANGED <<cfg, trace>>
       \/ LET r == EnvSet(env, cfg, cmdHost, "user", SessionEmail)
          IN  /\ cfg' = r.cfg
              /\ trace' = Append(trace, Traced("Set", cmdHost, "user", r.err))
              /\ IF r.err # "" THEN CmdReturn(r.err)
                 ELSE cmdPc' = "flow_write" /\ cmdRet' = cmdRet
    /\ UNCHANGED <<notEnvVars, env, disk, ret, ops, cmdOpts, cmdHost, stderr>>

\* `auth logout`: the command's RunE, then logoutRun through cfg.Hosts() and
\* the choice of the host.
LogoutStart(hostFlag, canPrompt, configOK) ==
    /\ CmdBegin("logout", [NoOpts EXCEPT !.Hostname = hostFlag, !.CanPrompt = canPrompt])
    /\ IF hostFlag = "" /\ ~canPrompt
       THEN CmdReturn("FlagError") /\ cmdHost' = ""
       ELSE IF ~configOK
       THEN CmdReturn("ConfigError") /\ cmdHost' = ""
       ELSE LET candidates == EnvHosts(env, cfg)
            IN  IF candidates.err # ""
                THEN CmdReturn(candidates.err) /\ cmdHost' = ""
                ELSE IF Len(candidates.list) = 0
                THEN CmdReturn("not logged in to any hosts") /\ cmdHost' = ""
                ELSE IF hostFlag = ""
                THEN IF Len(candidates.list) = 1
                     THEN /\ cmdPc' = "logout_check" /\ cmdRet' = "running"
                          /\ cmdHost' = candidates.list[1]
                     ELSE \/ CmdReturn("could not prompt") /\ cmdHost' = ""
                          \/ \E i \in 1..Len(candidates.list) :
                               /\ cmdPc' = "logout_check" /\ cmdRet' = "running"
                               /\ cmdHost' = candidates.list[i]
                ELSE IF \E i \in 1..Len(candidates.list) : candidates.list[i] = hostFlag
                THEN cmdPc' = "logout_check" /\ cmdRet' = "running" /\ cmdHost' = hostFlag
                ELSE CmdReturn("not logged into host") /\ cmdHost' = ""
    /\ UNCHANGED <<notEnvVars, env, cfg, disk>>

LogoutCheckWriteable ==
    /\ cmdPc = "logout_check"
    /\ LET r == EnvCheckWriteable(env, cfg, cmdHost, "token")
       IN  /\ trace' = Append(trace, Traced("CheckWriteable", cmdHost, "token", r.kind))
           /\ IF r.kind = "ReadOnlyEnvError"
              THEN /\ stderr' = <<Guidance(r.Variable, "clear the value from the environment")>>
                   /\ CmdReturn("ErrSilent")
              ELSE IF r.kind # ""
              THEN stderr' = stderr /\ CmdReturn(r.kind)
              ELSE stderr' = stderr /\ cmdRet' = cmdRet /\ cmdPc' = "logout_user"
    /\ UNCHANGED <<notEnvVars, env, cfg, disk, ret, ops, cmdOpts, cmdHost>>

\* Mutant: the answer to the confirmation prompt is not looked at.
LogoutUserAndConfirmAnyAnswer ==
    /\ cmdPc = "logout_user"
    /\ \/ \E e \in {"ClientError", "HTTPError"} :
            /\ trace' = Append(trace, Traced("GetSelf", cmdHost, "", e))
            /\ CmdReturn(e)
       \/ IF cmdOpts.CanPrompt
          THEN \E answer \in PromptOutcomes :
                 /\ trace' = trace \o <<Traced("GetSelf", cmdHost, "", ""),
                                        Traced("Confirm", cmdHost, "", answer)>>
                 /\ CASE answer = "err" -> CmdReturn("could not prompt")
                      [] answer = "no" -> cmdPc' = "logout_unset" /\ cmdRet' = cmdRet
                      [] OTHER -> cmdPc' = "logout_unset" /\ cmdRet' = cmdRet
          ELSE /\ trace' = Append(trace, Traced("GetSelf", cmdHost, "", ""))
               /\ cmdPc' = "logout_unset" /\ cmdRet' = cmdRet
    /\ UNCHANGED <<notEnvVars, env, cfg, disk, ret, ops, cmdOpts, cmdHost, stderr>>

\* The client, the user lookup and the confirmation prompt.
LogoutUserAndConfirm ==
    /\ cmdPc = "logout_user"
    /\ \/ \E e \in {"ClientError", "HTTPError"} :
            /\ trace' = Append(trace, Traced("GetSelf", cmdHost, "", e))
            /\ CmdReturn(e)
       \/ IF cmdOpts.CanPrompt
          THEN \E answer \in PromptOutcomes :
                 /\ trace' = trace \o <<Traced("GetSelf", cmdHost, "", ""),
                                        Traced("Confirm", cmdHost, "", answer)>>
                 /\ CASE answer = "err" -> CmdReturn("could not prompt")
                      [] answer = "no" -> CmdReturn("")
                      [] OTHER -> cmdPc' = "logout_unset" /\ cmdRet' = cmdRet
          ELSE /\ trace' = Append(trace, Traced("GetSelf", cmdHost, "", ""))
               /\ cmdPc' = "logout_unset" /\ cmdRet' = cmdRet
    /\ UNCHANGED <<notEnvVars, env, cfg, disk, ret, ops, cmdOpts, cmdHost, stderr>>

LogoutUnsetAndWrite ==
    /\ cmdPc = "logout_unset"
    /\ cfg' = EnvUnsetHost(env, cfg, cmdHost)
    /\ \E io \in WriteOutcomes :
         LET r == EnvWrite(env, cfg', disk, io)
         IN  /\ disk' = r.disk
             /\ trace' = trace \o <<Traced("UnsetHost", cmdHost, "", ""),
                                    Traced("Write", "", "", r.err)>>
             /\ CmdReturn(IF r.err # "" THEN "failed to write config" ELSE "")
    /\ UNCHANGED <<notEnvVars, env, ret, ops, cmdOpts, cmdHost, stderr>>

Command ==
    \/ \E h \in HostArgs, ts \in BOOLEAN, cp \in BOOLEAN, ok \in BOOLEAN :
         \E t \in IF ts THEN {"", NewToken} ELSE {""} : LoginStart(h, ts, t, cp, ok)
    \/ LoginCheckWriteable
    \/ LoginSetToken
    \/ LoginWrite
    \/ LoginGetExisting
    \/ FlowPromptAndSet
    \/ FlowSession
    \/ \E h \in HostArgs, cp \in BOOLEAN, ok \in BOOLEAN : LogoutStart(h, cp, ok)
    \/ LogoutCheckWriteable
    \/ LogoutUserAndConfirm
    \/ LogoutUnsetAndWrite

Next == OverlayCall \/ Command

Spec == Init /\ [][Next]_vars

----------------------------------------------------------------------------
(* Properties of the environment overlay *)

EnvTokenSet == env.KITTYCAD_TOKEN # "" \/ env.KITTYCAD_API_TOKEN # ""

ExpectedEnvToken ==
    IF env.KITTYCAD_TOKEN # "" THEN env.KITTYCAD_TOKEN ELSE env.KITTYCAD_API_TOKEN

ExpectedEnvSource ==
    IF env.KITTYCAD_TOKEN # "" THEN "KITTYCAD_TOKEN" ELSE "KITTYCAD_API_TOKEN"

HostsOf(c) == [i \in 1..Len(c.hosts) |-> c.hosts[i].host]

HasHost(c, hostname) == \E i \in 1..Len(c.hosts) : c.hosts[i].host = hostname

C3_SetRejectedUnderEnvToken ==
    (/\ ret.op = "Set"
     /\ ret.host # ""
     /\ ret.key = "token"
     /\ EnvTokenSet)
    => /\ ret.err = "ReadOnlyEnvError"
       /\ ret.errVar = ExpectedEnvSource
       /\ cfg = ret.before

\* C4: an environment token applies to api.kittycad.io only: for another host
\* without a file entry, GetWithSource(host, "token") returns the empty
\* file-derived value with a file source and CheckWriteable(host, "token")
\* succeeds, whatever the environment holds.
C4_EnvTokenDefaultHostOnly ==
    (/\ ret.op \in {"GetWithSource", "CheckWriteable"}
     /\ ret.host \notin {"", "api.kittycad.io"}
     /\ ret.key = "token"
     /\ EnvTokenSet
     /\ ~HasHost(ret.before, ret.host))
    => /\ ret.op = "GetWithSource" => ret.val = "" /\ ret.src = ConfigFileSource
       /\ ret.op = "CheckWriteable" => ret.err = ""

C7_DefaultHost ==
    LET w == FileDefaultHostWithSource(ret.before)
        host == IF env.KITTYCAD_HOST # "" THEN env.KITTYCAD_HOST ELSE w.val
    IN  /\ ret.op = "DefaultHostWithSource" =>
              /\ ret.val = host
              /\ ret.src = IF env.KITTYCAD_HOST # "" THEN "KITTYCAD_HOST" ELSE w.src
              /\ ret.err = IF env.KITTYCAD_HOST # "" THEN "" ELSE w.err
        /\ ret.op = "DefaultHost" => ret.val = host

C7_Witness ==
    /\ ret.op = "DefaultHostWithSource"
    /\ env.KITTYCAD_HOST # ""
    /\ ret.val = env.KITTYCAD_HOST
    /\ ret.val # KittyCADDefaultHost
    /\ ret.src = "KITTYCAD_HOST"

\* C5: in `auth login` and `auth logout`, CheckWriteable(hostname, "token") is
\* evaluated before any Set, UnsetHost or Write; when it fails with
\* ReadOnlyEnvError the command prints guidance naming the variable, returns
\* the silent error and performs no Set, UnsetHost or Write at all.
Mutating(i) == trace[i].op \in {"Set", "UnsetHost", "Write"}

C5_CheckWriteableFirst ==
    /\ \A i \in 1..Len(trace) :
         Mutating(i) =>
           \E j \in 1..(i-1) :
             /\ trace[j].op = "CheckWriteable"
             /\ trace[j].host = cmdHost
             /\ trace[j].key = "token"
             /\ trace[j].err = ""
    /\ \A j \in 1..Len(trace) :
         (trace[j].op = "CheckWriteable" /\ trace[j].err = "ReadOnlyEnvError") =>
           /\ \A i \in 1..Len(trace) : ~Mutating(i)
           /\ cmdPc = "done"
           /\ cmdRet = "ErrSilent"
           /\ Len(stderr) = 1
           /\ stderr[1].Variable = ExpectedEnvSource
           /\ cfg = ret.before
           /\ disk = ret.diskBefore

C5_Witness ==
    /\ ret.op = "logout"
    /\ cmdPc = "done"
    /\ cmdRet = "ErrSilent"
    /\ HasHost(cfg, cmdHost)
    /\ Len(trace) = 1
    /\ stderr[1].Variable = "KITTYCAD_TOKEN"

----------------------------------------------------------------------------
(* The process-wide config accessor: configFunc's closure *)

FsKinds == {"valid", "missing", "not-exist error", "invalid"}
FsContents == {1, 2}

\* parseConfig: a missing config.yml is the blank config; a root that is not
\* a mapping is an error and no config.  "not-exist error" stands for a
\* ReadConfigFile (a replaceable variable) whose error wraps os.ErrNotExist
\* in a way os.IsNotExist does not see: parseConfig hands it on.
ParseDefaultConfig(fs, n) ==
    CASE fs.kind = "valid" ->
           [config |-> [kind |-> "file", content |-> fs.content, alloc |-> n], err |-> ""]
      [] fs.kind = "missing" ->
           [config |-> [kind |-> "file", content |-> 0, alloc |-> n], err |-> ""]
      [] fs.kind = "not-exist error" ->
           [config |-> Nil, err |-> "ErrNotExist"]
      [] OTHER ->
           [config |-> Nil, err |-> "expected a top level map"]

NewBlankConfig(n) == [kind |-> "file", content |-> 0, alloc |-> n]

InheritEnv(c) == [kind |-> "env", Config |-> c]

\* Mutant: the cache counts as filled only when both captured variables are set.
ConfigFuncCachedBoth(cc, ce) == cc # Nil /\ ce # ""

ConfigFuncCached(cc, ce) == cc # Nil \/ ce # ""

ConfigFuncLoad(fs, n) ==
    LET parsed == ParseDefaultConfig(fs, n)
        blank == parsed.err = "ErrNotExist"
    IN  [config |-> InheritEnv(IF blank THEN NewBlankConfig(n) ELSE parsed.config),
         err |-> IF blank THEN "" ELSE parsed.err]

CallConfig ==
    /\ configCalls < MaxConfigCalls
    /\ configCalls' = configCalls + 1
    /\ IF ConfigFuncCached(cachedConfig, configError)
       THEN /\ lastResult' = [config |-> cachedConfig, err |-> configError]
            /\ UNCHANGED <<cachedConfig, configError, parseCalls>>
       ELSE LET r == ConfigFuncLoad(fsConfig, parseCalls + 1)
            IN  /\ parseCalls' = parseCalls + 1
                /\ cachedConfig' = r.config
                /\ configError' = r.err
                /\ lastResult' = r
    /\ firstResult' = IF configCalls = 0 THEN lastResult' ELSE firstResult
    /\ UNCHANGED <<notConfigVars, fsConfig>>

\* The files change under the running process (its own Write, or another process).
FsChange(kind, content) ==
    /\ fsConfig # [kind |-> kind, content |-> content]
    /\ fsConfig' = [kind |-> kind, content |-> content]
    /\ UNCHANGED <<notConfigVars, cachedConfig, configError, parseCalls, configCalls,
                   firstResult, lastResult>>

EnvQuiet ==
    /\ disk = cfg
    /\ ret = NoRet
    /\ ops = 0
    /\ cmdPc = "idle"
    /\ cmdOpts = NoOpts
    /\ cmdHost = ""
    /\ trace = <<>>
    /\ stderr = <<>>
    /\ cmdRet = ""

EnvIdle ==
    /\ env = [KITTYCAD_TOKEN |-> "", KITTYCAD_API_TOKEN |-> "", KITTYCAD_HOST |-> ""]
    /\ cfg = [main |-> BlankMain, hosts |-> <<>>]
    /\ EnvQuiet

ConfigFuncInit ==
    /\ fsConfig \in [kind : FsKinds, content : FsContents]
    /\ cachedConfig = Nil
    /\ configError = ""
    /\ parseCalls = 0
    /\ configCalls = 0
    /\ firstResult = NoResult
    /\ lastResult = NoResult
    /\ EnvIdle
    /\ MainIdle
    /\ ExtIdle

ConfigFuncNext ==
    \/ CallConfig
    \/ \E k \in FsKinds, c \in FsContents : FsChange(k, c)

SpecConfigFunc == ConfigFuncInit /\ [][ConfigFuncNext]_vars

\* C8: the accessor loads the configuration at most once: ParseDefaultConfig
\* is invoked by the first call only, and every later call returns the same
\* (config, error) pair as the first one, whether the load succeeded, found
\* no file or failed.
C8_LoadedOnce ==
    /\ parseCalls <= 1
    /\ configCalls >= 1 => parseCalls = 1 /\ lastResult = firstResult
    /\ configCalls = 0 => parseCalls = 0

C8_Witness ==
    /\ configCalls >= 3
    /\ firstResult.err = ""
    /\ firstResult.config.Config.content = 1
    /\ fsConfig = [kind |-> "valid", content |-> 2]
    /\ lastResult = firstResult

----------------------------------------------------------------------------
(* mainRun and the update-check goroutine *)

exitOK == 0
exitError == 1
exitCancel == 2
exitAuth == 4

ExternalExitCodes == {1, 3}

\* CheckAuth: an environment token, or a host of Hosts() with a non-empty token.
CheckAuth(e, c) ==
    \/ AuthTokenProvidedFromEnv(e)
    \/ /\ EnvHosts(e, c).err = ""
       /\ \E i \in 1..Len(EnvHosts(e, c).list) :
            EnvGet(e, c, EnvHosts(e, c).list[i], "token").val # ""

MainReturn(code) == mainPc' = "returned" /\ exitCode' = <<code>>

Alive == mainPc \notin {"off", "returned"}

\* The goroutine: checkForUpdate, up to its send on updateMessageChan.
UpdStart ==
    /\ Alive
    /\ updPc = "start"
    /\ \E shouldCheck \in BOOLEAN :
         updPc' = IF shouldCheck THEN "checking" ELSE "send"
    /\ UNCHANGED <<notMainVars, authCheck, mainPc, updRel, newRelease, recvCount, outcome, exitCode>>

UpdCheckDone ==
    /\ Alive
    /\ updPc = "checking"
    /\ \E rel \in {"nil", "release"} : updRel' = rel
    /\ updPc' = "send"
    /\ UNCHANGED <<notMainVars, authCheck, mainPc, newRelease, recvCount, outcome, exitCode>>

\* cli.New, root.NewCmdRoot and cli.Config().
MainConfig ==
    /\ mainPc = "start"
    /\ \E configOK \in BOOLEAN :
         IF configOK THEN mainPc' = "expand" /\ exitCode' = exitCode
         ELSE MainReturn(exitError)
    /\ UNCHANGED <<notMainVars, authCheck, updPc, updRel, newRelease, recvCount, outcome>>

ExpandOutcomes ==
    {"command", "alias error", "shell ok", "shell exit", "shell failed",
     "alias of command", "unknown"}

\* Alias expansion of the arguments that name no built-in command.
MainExpand ==
    /\ mainPc = "expand"
    /\ \E x \in ExpandOutcomes :
         CASE x \in {"command", "alias of command"} ->
                mainPc' = "execute" /\ exitCode' = exitCode
           [] x = "shell ok" -> MainReturn(exitOK)
           [] x = "shell exit" -> \E n \in ExternalExitCodes : MainReturn(n)
           [] OTHER -> MainReturn(exitError)
    /\ UNCHANGED <<notMainVars, authCheck, updPc, updRel, newRelease, recvCount, outcome>>

CommandErrors == {"silent", "cancel", "error", "mintty", "http 4xx"}

\* Mutant: a host entry counts as authentication whatever its token.
MainExecuteAnyHost ==
    /\ mainPc = "execute"
    /\ \E authCheckEnabled \in BOOLEAN :
         /\ authCheck' = IF authCheckEnabled THEN "enabled" ELSE "skipped"
         /\ IF authCheckEnabled /\ ~AuthTokenProvidedFromEnv(env) /\ cfg.hosts = <<>>
            THEN outcome' = "authError" /\ MainReturn(exitAuth)
            ELSE \E x \in CommandErrors \cup {"ok", "has failed"} :
                   /\ outcome' = x
                   /\ CASE x = "ok" -> mainPc' = "recv" /\ exitCode' = exitCode
                        [] x = "cancel" -> MainReturn(exitCancel)
                        [] OTHER -> MainReturn(exitError)
    /\ UNCHANGED <<notMainVars, updPc, updRel, newRelease, recvCount>>

\* rootCmd.ExecuteC(): PersistentPreRunE, then the command body, then the
\* mapping of its error to an exit code.
MainExecute ==
    /\ mainPc = "execute"
    /\ \E authCheckEnabled \in BOOLEAN :
         /\ authCheck' = IF authCheckEnabled THEN "enabled" ELSE "skipped"
         /\ IF authCheckEnabled /\ ~CheckAuth(env, cfg)
            THEN outcome' = "authError" /\ MainReturn(exitAuth)
            ELSE \E x \in CommandErrors \cup {"ok", "has failed"} :
                   /\ outcome' = x
                   /\ CASE x = "ok" -> mainPc' = "recv" /\ exitCode' = exitCode
                        [] x = "cancel" -> MainReturn(exitCancel)
                        [] OTHER -> MainReturn(exitError)
    /\ UNCHANGED <<notMainVars, updPc, updRel, newRelease, recvCount>>

\* Mutant: the receive placed before ExecuteC.
MainReceiveBeforeExecute ==
    /\ mainPc = "execute"
    /\ updPc = "send"
    /\ newRelease' = updRel
    /\ recvCount' = recvCount + 1
    /\ updPc' = "done"
    /\ UNCHANGED <<notMainVars, authCheck, mainPc, updRel, outcome, exitCode>>

\* newRelease := <-updateMessageChan: the channel is unbuffered, so the
\* receive and the goroutine's send happen together.
MainReceive ==
    /\ mainPc = "recv"
    /\ updPc = "send"
    /\ newRelease' = updRel
    /\ recvCount' = recvCount + 1
    /\ updPc' = "done"
    /\ mainPc' = "notify"
    /\ UNCHANGED <<notMainVars, authCheck, updRel, outcome, exitCode>>

MainNotify ==
    /\ mainPc = "notify"
    /\ MainReturn(exitOK)
    /\ UNCHANGED <<notMainVars, authCheck, updPc, updRel, newRelease, recvCount, outcome>>

MainInit ==
    /\ mainPc = "start"
    /\ updPc = "start"
    /\ updRel = "nil"
    /\ newRelease = "nil"
    /\ recvCount = 0
    /\ outcome = "none"
    /\ exitCode = <<>>
    /\ authCheck = "unknown"
    /\ env \in {e \in Environments : e.KITTYCAD_HOST = ""}
    /\ \E hs \in InitHostDocs : cfg = [main |-> BlankMain, hosts |-> hs]
    /\ EnvQuiet
    /\ ConfigIdle
    /\ ExtIdle

MainNext ==
    \/ UpdStart
    \/ UpdCheckDone
    \/ MainConfig
    \/ MainExpand
    \/ MainExecute
    \/ MainReceive
    \/ MainNotify

SpecMain == MainInit /\ [][MainNext]_vars

\* C9: the main path never receives from (or waits on) the update channel
\* before the command has finished executing, and receives at most once.
C9_NoReceiveBeforeCommand ==
    /\ recvCount <= 1
    /\ (mainPc \in {"recv", "notify"} \/ recvCount > 0) => outcome = "ok"
    /\ mainPc \in {"start", "expand", "execute"} => recvCount = 0 /\ newRelease = "nil"

C9_Witness ==
    /\ mainPc = "returned"
    /\ recvCount = 1
    /\ outcome = "ok"
    /\ newRelease = "release"
    /\ updPc = "done"

\* The steps of mainRun itself, the goroutine's own steps left out.
MainStep ==
    \/ MainConfig
    \/ MainExpand
    \/ MainExecute
    \/ MainReceive
    \/ MainNotify

\* C10: mainRun never waits for the update check: as long as it has not
\* returned it can take a step of its own, whatever the goroutine has or has
\* not done, so it returns on every path even if nothing is ever delivered.
C10_NeverWaitsForUpdate == Alive => ENABLED MainStep

\* Some host of the file config has a token that is not empty.
SomeHostHasToken ==
    \E i \in 1..Len(cfg.hosts) : GetStringValue(cfg.hosts[i].entries, "token").value # ""

EnvTokenProvided == env.KITTYCAD_TOKEN # "" \/ env.KITTYCAD_API_TOKEN # ""

\* The body of the command has run: ExecuteC ended otherwise than at the gate.
BodyRan == outcome \notin {"none", "authError"}

\* C26: a command whose auth check is enabled runs its body only if a token
\* variable is set or some host has a non-empty token; otherwise the body does
\* not run and mainRun returns 4, a code that is none of 0, 1 and 2; the gate
\* stops nothing else.
C26_AuthGate ==
    /\ exitAuth \notin {exitOK, exitError, exitCancel}
    /\ (authCheck = "enabled" /\ BodyRan) => (EnvTokenProvided \/ SomeHostHasToken)
    /\ (authCheck = "enabled" /\ ~EnvTokenProvided /\ ~SomeHostHasToken) =>
          /\ outcome = "authError"
          /\ mainPc = "returned"
          /\ exitCode = <<4>>
          /\ recvCount = 0
    /\ outcome = "authError" =>
          authCheck = "enabled" /\ ~EnvTokenProvided /\ ~SomeHostHasToken

\* The only host entry has an empty token and no token variable is set.
C26_Witness ==
    /\ authCheck = "enabled"
    /\ cfg.hosts = <<HostEntry(KittyCADDefaultHost, "")>>
    /\ ~EnvTokenProvided
    /\ outcome = "authError"
    /\ exitCode = <<exitAuth>>

----------------------------------------------------------------------------
(* update.CheckForUpdate and its state file *)

TickHours == 8
ThrottleHours == 24
InitClock == 4
MaxClock == 8
MaxChecks == 3

CoreIdle == EnvIdle /\ ConfigIdle /\ MainIdle

\* Versions: a release tag [patch], a git-describe build [patch, ahead] made
\* `ahead` commits after the tag, or a string that is no version at all.
ReleaseTags == {[kind |-> "tag", patch |-> 1], [kind |-> "tag", patch |-> 2]}
InvalidVersion == [kind |-> "invalid", patch |-> 0]
CurrentVersions ==
    ReleaseTags \cup {[kind |-> "describe", patch |-> 1], InvalidVersion}

\* The git-describe suffix N-M-g<hash> rewritten to (N+1)-pre.0.
NormalizeDescribe(w) ==
    IF w.kind = "describe" THEN [kind |-> "pre", patch |-> w.patch + 1] ELSE w

versionGreaterThan(v, w) ==
    LET ww == NormalizeDescribe(w) IN
    /\ v.kind # "invalid"
    /\ ww.kind # "invalid"
    /\ \/ v.patch > ww.patch
       \/ v.patch = ww.patch /\ v.kind = "tag" /\ ww.kind = "pre"

\* time.Since(t).Hours() for a clock reading now.
HoursSince(t, now) == (now - t) * TickHours

\* getStateEntry: nil unless the file can be read and unmarshalled; an
\* empty file unmarshals to the zero entry, whose time is the zero time.
getStateEntry(f) ==
    CASE f.kind = "entry" -> [nil |-> FALSE, CheckedForUpdateAt |-> f.at]
      [] f.kind = "empty" -> [nil |-> FALSE, CheckedForUpdateAt |-> 0]
      [] OTHER -> [nil |-> TRUE, CheckedForUpdateAt |-> 0]

\* Mutant: an entry exactly 24 hours old still throttles.
ThrottledInclusive(f, now) ==
    /\ ~getStateEntry(f).nil
    /\ HoursSince(getStateEntry(f).CheckedForUpdateAt, now) <= ThrottleHours

Throttled(f, now) ==
    /\ ~getStateEntry(f).nil
    /\ HoursSince(getStateEntry(f).CheckedForUpdateAt, now) < ThrottleHours

SetStateOutcomes == {"ok", "mkdir fails", "open fails", "write fails"}

\* setStateEntry: MkdirAll, then WriteFile, which truncates the file when it
\* opens it and may fail afterwards.
setStateEntry(f, t, r, io) ==
    CASE io = "ok" -> [kind |-> "entry", at |-> t, release |-> r]
      [] io = "write fails" -> [kind |-> "empty", at |-> 0, release |-> NoRelease]
      [] OTHER -> f

\* GetLatestRelease: a release, or an error (a record that is no release).
FetchError == [kind |-> "error", patch |-> 0]

FetchOutcomes == {FetchError} \cup ReleaseTags

CallCheckForUpdate ==
    /\ checks < MaxChecks
    /\ checks' = checks + 1
    /\ \E currentVersion \in CurrentVersions, fetch \in FetchOutcomes, io \in SetStateOutcomes :
         LET seen == [NoCheck EXCEPT !.before = stateFile, !.at = clock] IN
         IF Throttled(stateFile, clock)
         THEN /\ chk' = seen
              /\ UNCHANGED <<stateFile, fetchedAt, recordedAt>>
         ELSE IF fetch = FetchError
         THEN /\ chk' = [seen EXCEPT !.requested = TRUE, !.fetched = "error",
                                     !.err = "request failed"]
              /\ UNCHANGED <<stateFile, fetchedAt, recordedAt>>
         ELSE /\ stateFile' = setStateEntry(stateFile, clock, fetch, io)
              /\ fetchedAt' = fetchedAt \cup {clock}
              /\ recordedAt' = IF io = "ok" THEN recordedAt \cup {clock} ELSE recordedAt
              /\ chk' = [seen EXCEPT
                           !.requested = TRUE, !.fetched = "ok", !.wrote = io,
                           !.err = IF io = "ok" THEN "" ELSE io,
                           !.rel = IF io = "ok" /\ versionGreaterThan(fetch, currentVersion)
                                   THEN "release" ELSE "nil"]
    /\ UNCHANGED <<notUpdateVars, clock>>

Tick ==
    /\ clock < MaxClock
    /\ clock' = clock + 1
    /\ UNCHANGED <<notUpdateVars, stateFile, checks, chk, fetchedAt, recordedAt>>

StateFiles ==
    {NoStateFile, [kind |-> "garbled", at |-> 0, release |-> NoRelease],
     [kind |-> "empty", at |-> 0, release |-> NoRelease]}
    \cup [kind : {"entry"}, at : 1..(InitClock + 1), release : ReleaseTags]

UpdateInit ==
    /\ stateFile \in StateFiles
    /\ clock = InitClock
    /\ checks = 0
    /\ chk = NoCheck
    /\ fetchedAt = {}
    /\ recordedAt = {}
    /\ CoreIdle
    /\ DirIdle
    /\ StoreIdle
    /\ AliasIdle
    /\ ConfIdle
    /\ RaceIdle

UpdateNext == CallCheckForUpdate \/ Tick

SpecUpdate == UpdateInit /\ [][UpdateNext]_vars

Unreadable(f) == f.kind \in {"missing", "garbled"}

\* C11 as stated: a request is made only when the state file cannot be read
\* or its time is at least 24 hours old; a successful fetch leaves the
\* current time in the state file, so that no call within 24 hours of a
\* successful fetch makes a request or returns a release; a failed fetch
\* leaves the state file unchanged.
C11_ThrottledOncePerDay ==
    checks > 0 =>
      /\ chk.requested =>
           Unreadable(chk.before) \/ HoursSince(chk.before.at, chk.at) >= ThrottleHours
      /\ chk.fetched = "ok" => stateFile.kind = "entry" /\ stateFile.at = chk.at
      /\ chk.fetched = "error" => stateFile = chk.before
      /\ \A t \in fetchedAt :
           (t < chk.at /\ HoursSince(t, chk.at) < ThrottleHours) =>
             ~chk.requested /\ chk.rel = "nil"

\* C11 amended: the time is recorded when the write of the state file
\* succeeds, and then no call within the next 24 hours makes a request or
\* returns a release; when the write fails the call returns the error and
\* no release.
C11_ThrottledWhenRecorded ==
    checks > 0 =>
      /\ chk.requested <=>
           \/ Unreadable(chk.before)
           \/ HoursSince(getStateEntry(chk.before).CheckedForUpdateAt, chk.at) >= ThrottleHours
      /\ (chk.fetched = "ok" /\ chk.wrote = "ok") =>
           stateFile.kind = "entry" /\ stateFile.at = chk.at
      /\ (chk.fetched = "ok" /\ chk.wrote # "ok") => chk.err # "" /\ chk.rel = "nil"
      /\ chk.fetched = "error" => stateFile = chk.before /\ chk.rel = "nil"
      /\ \A t \in recordedAt :
           (t < chk.at /\ HoursSince(t, chk.at) < ThrottleHours) =>
             ~chk.requested /\ chk.rel = "nil" /\ stateFile = chk.before

C11_Witness ==
    /\ checks >= 2
    /\ recordedAt # {}
    /\ \E t \in recordedAt : chk.at = t + 3
    /\ chk.requested
    /\ chk.rel = "release"

----------------------------------------------------------------------------
(* Dir, StateDir, DataDir and the legacy migration *)

KittyCADShorthandDir == "kittycad"
KittyCADWindowsDir == "KittyCAD CLI"

\* A path is the sequence of its elements; "" and "." are the elements a
\* trailing or doubled separator and a dot leave behind.
Clean(p) == SelectSeq(p, LAMBDA c : c \notin {"", "."})

\* filepath.Join: the elements joined, then cleaned.
Join(p, q) == Clean(p \o q)

\* filepath.Dir
ParentDir(p) == IF Len(Clean(p)) = 0 THEN <<>> ELSE SubSeq(Clean(p), 1, Len(Clean(p)) - 1)

IsPrefix(p, q) == Len(p) <= Len(q) /\ SubSeq(q, 1, Len(p)) = p

\* os.UserHomeDir: the home variable of the platform, an error when empty.
UserHomeDir(e) == [dir |-> e.HOME, err |-> e.HOME = <<>>]

\* Mutant: XDG_CONFIG_HOME consulted before KITTYCAD_CONFIG_DIR.
DirPathXDGFirst(e) ==
    IF e.XDG_CONFIG_HOME # <<>> THEN Join(e.XDG_CONFIG_HOME, <<KittyCADShorthandDir>>)
    ELSE IF e.KITTYCAD_CONFIG_DIR # <<>> THEN e.KITTYCAD_CONFIG_DIR
    ELSE IF e.GOOS = "windows" /\ e.AppData # <<>>
    THEN Join(e.AppData, <<KittyCADWindowsDir>>)
    ELSE Join(UserHomeDir(e).dir, <<".config", KittyCADShorthandDir>>)

DirPath(e) ==
    IF e.KITTYCAD_CONFIG_DIR # <<>> THEN e.KITTYCAD_CONFIG_DIR
    ELSE IF e.XDG_CONFIG_HOME # <<>> THEN Join(e.XDG_CONFIG_HOME, <<KittyCADShorthandDir>>)
    ELSE IF e.GOOS = "windows" /\ e.AppData # <<>>
    THEN Join(e.AppData, <<KittyCADWindowsDir>>)
    ELSE Join(UserHomeDir(e).dir, <<".config", KittyCADShorthandDir>>)

StateDirPath(e) ==
    IF e.XDG_STATE_HOME # <<>> THEN Join(e.XDG_STATE_HOME, <<KittyCADShorthandDir>>)
    ELSE IF e.GOOS = "windows" /\ e.LocalAppData # <<>>
    THEN Join(e.LocalAppData, <<KittyCADWindowsDir>>)
    ELSE Join(UserHomeDir(e).dir, <<".local", "state", KittyCADShorthandDir>>)

DataDirPath(e) ==
    IF e.XDG_DATA_HOME # <<>> THEN Join(e.XDG_DATA_HOME, <<KittyCADShorthandDir>>)
    ELSE IF e.GOOS = "windows" /\ e.LocalAppData # <<>>
    THEN Join(e.LocalAppData, <<KittyCADWindowsDir>>)
    ELSE Join(UserHomeDir(e).dir, <<".local", "share", KittyCADShorthandDir>>)

dirExists(f, p) == Clean(p) \in f.dirs

\* Does the directory p hold a regular file state.yml?
fileExists(f, p) == Clean(p) \in f.files

\* os.MkdirAll: the directory and its missing ancestors, unless the
\* filesystem refuses.
MkdirAll(f, p) ==
    IF f.io = "read-only" THEN f
    ELSE [f EXCEPT !.dirs = @ \cup {SubSeq(Clean(p), 1, k) : k \in 1..Len(Clean(p))}]

\* os.Rename of a directory: [f, err].
RenameDir(f, old, new) ==
    IF \/ f.io # "ok"
       \/ IsPrefix(old, new)
       \/ (Len(new) > 1 /\ ParentDir(new) \notin f.dirs)
    THEN [f |-> f, err |-> "rename failed"]
    ELSE [f |-> [f EXCEPT !.dirs = (@ \ {old}) \cup {new},
                          !.files = IF old \in @ THEN (@ \ {old}) \cup {new} ELSE @],
          err |-> ""]

\* os.Rename of the file state.yml from directory old to directory new.
RenameFile(f, old, new) ==
    IF f.io # "ok" \/ old \notin f.files \/ new \notin f.dirs
    THEN [f |-> f, err |-> "rename failed"]
    ELSE [f |-> [f EXCEPT !.files = (@ \ {old}) \cup {new}], err |-> ""]

migrateDir(f, oldPath, newPath) ==
    IF oldPath = newPath THEN [f |-> f, err |-> "same path"]
    ELSE IF ~dirExists(f, oldPath) THEN [f |-> f, err |-> "not exist"]
    ELSE RenameDir(MkdirAll(f, ParentDir(newPath)), oldPath, newPath)

migrateFile(f, oldPath, newPath) ==
    IF oldPath = newPath THEN [f |-> f, err |-> "same path"]
    ELSE IF ~fileExists(f, oldPath) THEN [f |-> f, err |-> "not exist"]
    ELSE RenameFile(MkdirAll(f, newPath), oldPath, newPath)

LegacyPath(e) == Join(UserHomeDir(e).dir, <<".config", KittyCADShorthandDir>>)

autoMigrateConfigDir(f, e, newPath) ==
    IF ~UserHomeDir(e).err /\ dirExists(f, LegacyPath(e))
    THEN migrateDir(f, LegacyPath(e), newPath)
    ELSE [f |-> f, err |-> "not exist"]

autoMigrateStateDir(f, e, newPath) ==
    IF ~UserHomeDir(e).err /\ dirExists(f, LegacyPath(e))
    THEN migrateFile(f, LegacyPath(e), newPath)
    ELSE [f |-> f, err |-> "not exist"]

DirResult(path, m, attempted) ==
    [path |-> path, f |-> m.f, attempted |-> attempted, err |-> m.err]

\* Mutant: the migration is attempted although KITTYCAD_CONFIG_DIR is set.
DirDespiteOverride(f, e) ==
    IF ~dirExists(f, DirPath(e))
    THEN DirResult(DirPath(e), autoMigrateConfigDir(f, e, DirPath(e)), TRUE)
    ELSE DirResult(DirPath(e), [f |-> f, err |-> ""], FALSE)

\* Mutant: the directory the configuration was in on entry is returned.
DirWhereConfigWas(f, e) ==
    LET path == IF e.KITTYCAD_CONFIG_DIR = <<>> /\ dirExists(f, LegacyPath(e))
                THEN LegacyPath(e) ELSE DirPath(e) IN
    IF ~dirExists(f, DirPath(e)) /\ e.KITTYCAD_CONFIG_DIR = <<>>
    THEN DirResult(path, autoMigrateConfigDir(f, e, DirPath(e)), TRUE)
    ELSE DirResult(path, [f |-> f, err |-> ""], FALSE)

Dir(f, e) ==
    IF ~dirExists(f, DirPath(e)) /\ e.KITTYCAD_CONFIG_DIR = <<>>
    THEN DirResult(DirPath(e), autoMigrateConfigDir(f, e, DirPath(e)), TRUE)
    ELSE DirResult(DirPath(e), [f |-> f, err |-> ""], FALSE)

StateDir(f, e) ==
    IF ~dirExists(f, StateDirPath(e))
    THEN DirResult(StateDirPath(e), autoMigrateStateDir(f, e, StateDirPath(e)), TRUE)
    ELSE DirResult(StateDirPath(e), [f |-> f, err |-> ""], FALSE)

DataDir(f, e) == DirResult(DataDirPath(e), [f |-> f, err |-> ""], FALSE)

DirFunctions == {"Dir", "StateDir", "DataDir"}

DirCalled(o, r) ==
    /\ dirRet' = [op |-> o, path |-> r.path, before |-> dirFs, attempted |-> r.attempted,
                  migrated |-> r.err, again |-> dirFirst[o] # {}]
    /\ dirFs' = r.f
    /\ dirFirst' = IF dirFirst[o] = {} THEN [dirFirst EXCEPT ![o] = {r.path}] ELSE dirFirst
    /\ UNCHANGED <<notDirVars, dirEnv>>

CallDir ==
    LET r == Dir(dirFs, dirEnv) IN
    DirCalled("Dir", r)

CallStateDir ==
    LET r == StateDir(dirFs, dirEnv) IN
    DirCalled("StateDir", r)

CallDataDir ==
    LET r == DataDir(dirFs, dirEnv) IN
    DirCalled("DataDir", r)

DirEnvironments ==
    [KITTYCAD_CONFIG_DIR : {<<>>, <<"tmp", "y", "">>},
     XDG_CONFIG_HOME : {<<>>, <<"xdg", "">>},
     XDG_STATE_HOME : {<<>>, <<"xdg">>},
     XDG_DATA_HOME : {<<>>, <<"data">>},
     AppData : {<<>>, <<"AppData">>},
     LocalAppData : {<<>>, <<"LocalAppData">>},
     HOME : {<<>>, <<"home">>},
     GOOS : {"linux", "windows"}]

\* The filesystems a call can find: the legacy directory absent, empty or
\* holding state.yml; the resolved directories present or not; a filesystem
\* that works, one that refuses every change, one that refuses the rename.
DirFilesystems(e) ==
    {[dirs |-> legacy.dirs \cup targets, files |-> legacy.files, io |-> io] :
        legacy \in {[dirs |-> {}, files |-> {}],
                    [dirs |-> {LegacyPath(e)}, files |-> {}],
                    [dirs |-> {LegacyPath(e)}, files |-> {LegacyPath(e)}]},
        targets \in {{}, {Clean(DirPath(e)), StateDirPath(e)}},
        io \in {"ok", "read-only", "rename fails"}}

DirInit ==
    /\ dirEnv \in DirEnvironments
    /\ dirFs \in DirFilesystems(dirEnv)
    /\ dirRet = NoDirCall
    /\ dirFirst = [o \in DirFunctions |-> {}]
    /\ CoreIdle
    /\ UpdateIdle
    /\ StoreIdle
    /\ AliasIdle
    /\ ConfIdle
    /\ RaceIdle

DirNext == CallDir \/ CallStateDir \/ CallDataDir

SpecDir == DirInit /\ [][DirNext]_vars

\* The first candidate of an ordered list that applies.
RECURSIVE FirstNonEmpty(_)
FirstNonEmpty(cands) ==
    IF Len(cands) = 1 \/ Head(cands).applies THEN Head(cands).path
    ELSE FirstNonEmpty(Tail(cands))

SamePath(p, q) == Clean(p) = Clean(q)

Candidate(base, onlyWindows, rest) ==
    [applies |-> base # <<>> /\ (onlyWindows => dirEnv.GOOS = "windows"), path |-> base \o rest]

C13_MigrationBestEffort ==
    LET before == dirRet.before
        legacy == LegacyPath(dirEnv)
        new == Clean(dirRet.path)
    IN
    /\ dirRet.op = "Dir" =>
         /\ dirRet.attempted <=>
              (new \notin before.dirs /\ dirEnv.KITTYCAD_CONFIG_DIR = <<>>)
         /\ dirRet.path = DirPath(dirEnv)
         /\ (dirRet.attempted /\ dirRet.migrated = "") =>
              /\ legacy \in before.dirs /\ legacy \notin dirFs.dirs /\ new \in dirFs.dirs
              /\ legacy \in before.files <=> new \in dirFs.files
              /\ legacy \notin dirFs.files
         /\ (legacy = new \/ legacy \notin before.dirs) => dirFs = before
    /\ dirRet.op = "StateDir" =>
         /\ dirRet.attempted <=> new \notin before.dirs
         /\ dirRet.path = StateDirPath(dirEnv)
         /\ (dirRet.attempted /\ dirRet.migrated = "") =>
              /\ legacy \in before.files /\ legacy \notin dirFs.files /\ new \in dirFs.files
              /\ legacy \in dirFs.dirs
         /\ (legacy = new \/ legacy \notin before.files) => dirFs = before
    /\ dirRet.op = "DataDir" => ~dirRet.attempted /\ dirFs = before
    /\ (dirRet.attempted /\ dirRet.migrated # "") =>
         /\ dirFs.files = before.files
         /\ \A d \in before.dirs : d \in dirFs.dirs

C13_Witness ==
    /\ dirRet.op = "Dir"
    /\ dirRet.attempted
    /\ dirRet.migrated = ""
    /\ dirRet.path = <<"xdg", "kittycad">>
    /\ <<"xdg", "kittycad">> \in dirFs.files

\* C14: a repeated call of a directory function returns the path its first
\* call returned and leaves the filesystem as it found it.
C14_Idempotent ==
    dirRet.again => dirFirst[dirRet.op] = {dirRet.path} /\ dirFs = dirRet.before

C14_Witness ==
    /\ dirRet.op = "Dir"
    /\ dirRet.again
    /\ ~dirRet.attempted
    /\ dirEnv.KITTYCAD_CONFIG_DIR = <<>>
    /\ LegacyPath(dirEnv) # Clean(dirRet.path)
    /\ Clean(dirRet.path) \in dirFs.files

----------------------------------------------------------------------------
(* config.yml and hosts.yml: parseConfig, Set and Write *)

\* Nodes of the root mapping, and the entries of a mapping below it
ScalarNode(k, v) == [key |-> k, kind |-> "scalar", value |-> v, children |-> <<>>]
MappingNode(k, ch) == [key |-> k, kind |-> "mapping", value |-> "", children |-> ch]
ChildNode(k, v, entries) == [key |-> k, value |-> v, entries |-> entries]

NewBlankRoot ==
    <<ScalarNode("prompt", "enabled"), ScalarNode("pager", ""),
      MappingNode("aliases", <<ChildNode("co", "file convert", <<>>)>>),
      ScalarNode("browser", "")>>

\* Index of the first entry with the key, 0 when there is none.
NodeIndex(nodes, key) ==
    IF \E i \in 1..Len(nodes) : nodes[i].key = key
    THEN CHOOSE i \in 1..Len(nodes) :
            nodes[i].key = key /\ \A j \in 1..(i-1) : nodes[j].key # key
    ELSE 0

\* Mutant: an empty file is a structural error.
parseConfigFileEmptyIsError(file) ==
    CASE file.kind = "missing" -> [content |-> <<>>, err |-> "not exist"]
      [] file.kind = "unreadable" -> [content |-> <<>>, err |-> "permission denied"]
      [] file.kind = "syntax" -> [content |-> <<>>, err |-> "yaml: syntax error"]
      [] file.root # "mapping" -> [content |-> <<>>, err |-> "expected a top level map"]
      [] OTHER -> [content |-> file.content, err |-> ""]

\* ReadConfigFile and parseConfigData: [content, err].
parseConfigFile(file) ==
    CASE file.kind = "missing" -> [content |-> <<>>, err |-> "not exist"]
      [] file.kind = "unreadable" -> [content |-> <<>>, err |-> "permission denied"]
      [] file.kind = "syntax" -> [content |-> <<>>, err |-> "yaml: syntax error"]
      [] file.root = "none" -> [content |-> <<>>, err |-> ""]
      [] file.root # "mapping" -> [content |-> <<>>, err |-> "expected a top level map"]
      [] OTHER -> [content |-> file.content, err |-> ""]

\* Mutant: a missing hosts.yml is an error like any other.
parseConfigHostsRequired(files) ==
    LET main == parseConfigFile(files.main)
        hosts == parseConfigFile(files.hosts)
        content == IF main.err = "not exist" THEN NewBlankRoot ELSE main.content
    IN  IF main.err \notin {"", "not exist"} THEN [loaded |-> FALSE, content |-> <<>>, err |-> main.err]
        ELSE IF hosts.err = ""
        THEN [loaded |-> TRUE, err |-> "",
              content |-> IF Len(hosts.content) > 0
                          THEN <<MappingNode("hosts", hosts.content)>> \o content
                          ELSE content]
        ELSE [loaded |-> FALSE, content |-> <<>>, err |-> hosts.err]

\* Mutant: the hosts.yml mapping is merged at the end of the root mapping.
parseConfigHostsLast(files) ==
    LET main == parseConfigFile(files.main)
        hosts == parseConfigFile(files.hosts)
        content == IF main.err = "not exist" THEN NewBlankRoot ELSE main.content
    IN  IF main.err \notin {"", "not exist"} THEN [loaded |-> FALSE, content |-> <<>>, err |-> main.err]
        ELSE IF hosts.err = ""
        THEN [loaded |-> TRUE, err |-> "",
              content |-> IF Len(hosts.content) > 0
                          THEN content \o <<MappingNode("hosts", hosts.content)>>
                          ELSE content]
        ELSE IF hosts.err # "not exist" THEN [loaded |-> FALSE, content |-> <<>>, err |-> hosts.err]
        ELSE [loaded |-> TRUE, content |-> content, err |-> ""]

parseConfig(files) ==
    LET main == parseConfigFile(files.main)
        hosts == parseConfigFile(files.hosts)
        content == IF main.err = "not exist" THEN NewBlankRoot ELSE main.content
    IN  IF main.err \notin {"", "not exist"} THEN [loaded |-> FALSE, content |-> <<>>, err |-> main.err]
        ELSE IF hosts.err = ""
        THEN [loaded |-> TRUE, err |-> "",
              content |-> IF Len(hosts.content) > 0
                          THEN <<MappingNode("hosts", hosts.content)>> \o content
                          ELSE content]
        ELSE IF hosts.err # "not exist" THEN [loaded |-> FALSE, content |-> <<>>, err |-> hosts.err]
        ELSE [loaded |-> TRUE, content |-> content, err |-> ""]

\* The tree as fileConfig reads it: the scalar settings of the root mapping
\* and the entries of its first `hosts` mapping.
ConfigOf(content) ==
    LET scalars == SelectSeq(content, LAMBDA n : n.kind = "scalar")
        hi == NodeIndex(content, "hosts")
        hs == IF hi = 0 THEN <<>> ELSE content[hi].children
    IN  [main |-> [i \in 1..Len(scalars) |-> <<scalars[i].key, scalars[i].value>>],
         hosts |-> [i \in 1..Len(hs) |-> [host |-> hs[i].key, entries |-> hs[i].entries]]]

TreeGet(content, hostname, key) == FileGetWithSource(ConfigOf(content), hostname, key).val

MaxSets == 2
MaxWrites == 1

\* Set: the global entry, or the entry of the host under the first `hosts`
\* mapping, each created at the end when missing.
TreeSet(content, hostname, key, value) ==
    LET hi == NodeIndex(content, "hosts")
        i == NodeIndex(content, key)
    IN  IF hostname = ""
        THEN IF i = 0 THEN Append(content, ScalarNode(key, value))
             ELSE [content EXCEPT ![i] = ScalarNode(key, value)]
        ELSE IF hi = 0
        THEN Append(content,
                MappingNode("hosts", <<ChildNode(hostname, "", <<<<key, value>>>>)>>))
        ELSE IF NodeIndex(content[hi].children, hostname) = 0
        THEN [content EXCEPT ![hi].children =
                Append(@, ChildNode(hostname, "", <<<<key, value>>>>))]
        ELSE [content EXCEPT
                ![hi].children[NodeIndex(content[hi].children, hostname)].entries =
                    SetStringValue(@, key, value)]

\* Mutant: the `hosts` mapping stays in the main document.
SplitMainKeepsHosts(content) == content

\* Write splits the tree: the root mapping without `hosts`, and the entries
\* of the `hosts` mapping.
SplitMain(content) == SelectSeq(content, LAMBDA n : n.key # "hosts")

SplitHosts(content) ==
    IF NodeIndex(content, "hosts") = 0 THEN <<>>
    ELSE content[NodeIndex(content, "hosts")].children

\* yaml.Marshal of a mapping; an empty mapping is written as an empty file.
Marshal(content, n) ==
    [kind |-> "yaml", root |-> IF content = <<>> THEN "none" ELSE "mapping",
     content |-> content, ver |-> n]

WriteFileOutcomes == {"ok", "open fails", "write fails"}

\* WriteConfigFile: MkdirAll and OpenFile with O_TRUNC, then Write. A failed
\* write leaves the file truncated or cut short.
WriteConfigFile(file, data, io, cut) ==
    CASE io = "ok" -> data
      [] io = "open fails" -> file
      [] OTHER -> [kind |-> IF cut THEN "syntax" ELSE "yaml", root |-> "none",
                   content |-> <<>>, ver |-> data.ver]

SetHosts == {KittyCADDefaultHost, OtherHost, ""}
SetValues == {"", "BLAH"}

\* No Write() is running: none was started, or the latest returned.
WriteQuiet == writePc \in {"idle", "done", "failed"}

Load ==
    /\ WriteQuiet
    /\ root' = [loaded |-> parseConfig(cfgFiles).loaded, content |-> parseConfig(cfgFiles).content]
    /\ loadRet' = [files |-> cfgFiles, loaded |-> parseConfig(cfgFiles).loaded,
                   content |-> parseConfig(cfgFiles).content, err |-> parseConfig(cfgFiles).err]
    /\ setLog' = {}
    /\ writePc' = "idle"
    /\ UNCHANGED <<notStoreVars, cfgFiles, saved, writes, sets>>

SetKey ==
    /\ WriteQuiet
    /\ root.loaded
    /\ \E h \in SetHosts, k \in {"token", "pager"}, v \in SetValues :
         /\ h = "" => k # "token"
         /\ h = OtherHost => k = "token"
         /\ setLog' = {t \in setLog : t[1] # h \/ t[2] # k} \cup {<<h, k, v>>}
         /\ sets < MaxSets
         /\ sets' = sets + 1
         /\ root' = [root EXCEPT !.content = TreeSet(@, h, k, v)]
    /\ writePc' = "idle"
    /\ UNCHANGED <<notStoreVars, cfgFiles, loadRet, saved, writes>>

WriteStart ==
    /\ WriteQuiet
    /\ root.loaded
    /\ writes < MaxWrites
    /\ writes' = writes + 1
    /\ writePc' = "main"
    /\ UNCHANGED <<notStoreVars, cfgFiles, root, loadRet, setLog, saved, sets>>

\* Mutant: hosts.yml is written first.
WriteMainAfterHosts ==
    /\ writePc = "main"
    /\ \E io \in WriteFileOutcomes, cut \in BOOLEAN :
         /\ cfgFiles' = [cfgFiles EXCEPT !.hosts =
                WriteConfigFile(@, Marshal(SplitHosts(root.content), writes), io, cut)]
         /\ writePc' = IF io = "ok" THEN "hosts" ELSE "failed"
         /\ saved' = IF io = "write fails" THEN {} ELSE saved
    /\ UNCHANGED <<notStoreVars, root, loadRet, setLog, writes, sets>>

WriteMain ==
    /\ writePc = "main"
    /\ \E io \in WriteFileOutcomes, cut \in BOOLEAN :
         /\ cfgFiles' = [cfgFiles EXCEPT !.main =
                WriteConfigFile(@, Marshal(SplitMain(root.content), writes), io, cut)]
         /\ writePc' = IF io = "ok" THEN "hosts" ELSE "failed"
         /\ saved' = IF io = "write fails" THEN {} ELSE saved
    /\ UNCHANGED <<notStoreVars, root, loadRet, setLog, writes, sets>>

WriteHosts ==
    /\ writePc = "hosts"
    /\ \E io \in WriteFileOutcomes, cut \in BOOLEAN :
         /\ cfgFiles' = [cfgFiles EXCEPT !.hosts =
                WriteConfigFile(@, Marshal(SplitHosts(root.content), writes), io, cut)]
         /\ saved' = IF io = "ok" THEN setLog ELSE {}
         /\ writePc' = IF io = "ok" THEN "done" ELSE "failed"
    /\ UNCHANGED <<notStoreVars, root, loadRet, setLog, writes, sets>>

\* The process ends in the middle of Write(), before or between the two files.
ProcessStops ==
    /\ writePc \in {"main", "hosts"}
    /\ writePc' = "failed"
    /\ root' = [loaded |-> FALSE, content |-> <<>>]
    /\ setLog' = {}
    /\ saved' = IF writePc = "hosts" THEN {} ELSE saved
    /\ UNCHANGED <<notStoreVars, cfgFiles, loadRet, writes, sets>>

HostsOnDisk(token) ==
    {<<>>,
     <<ChildNode(KittyCADDefaultHost, "", <<<<"token", token>>>>)>>,
     <<ChildNode("not.kittycad.io", "", <<<<"token", "NOTTHIS">>>>),
       ChildNode(KittyCADDefaultHost, "", <<<<"token", token>>>>)>>}

MainFiles ==
    {NoFile, [NoFile EXCEPT !.kind = "unreadable"], [NoFile EXCEPT !.kind = "syntax"],
     [NoFile EXCEPT !.kind = "yaml"], [NoFile EXCEPT !.kind = "yaml", !.root = "scalar"]}
    \cup {[kind |-> "yaml", root |-> "mapping", ver |-> 0,
           content |-> <<ScalarNode("pager", "less")>>
                       \o (IF hs = <<>> THEN <<>> ELSE <<MappingNode("hosts", hs)>>)] :
            hs \in HostsOnDisk("LEGACY")}

HostsFiles ==
    {NoFile, [NoFile EXCEPT !.kind = "unreadable"],
     [NoFile EXCEPT !.kind = "yaml"], [NoFile EXCEPT !.kind = "yaml", !.root = "scalar"]}
    \cup {[kind |-> "yaml", root |-> "mapping", ver |-> 0, content |-> hs] :
            hs \in HostsOnDisk("BLAH") \ {<<>>}}

StoreInit ==
    /\ cfgFiles \in [main : MainFiles, hosts : HostsFiles]
    /\ root = [loaded |-> FALSE, content |-> <<>>]
    /\ loadRet = NoLoad
    /\ setLog = {}
    /\ saved = {}
    /\ writePc = "idle"
    /\ writes = 0
    /\ sets = 0
    /\ CoreIdle
    /\ UpdateIdle
    /\ DirIdle
    /\ AliasIdle
    /\ ConfIdle
    /\ RaceIdle

StoreNext ==
    \/ Load
    \/ SetKey
    \/ WriteStart
    \/ WriteMain
    \/ WriteHosts
    \/ ProcessStops

SpecStore == StoreInit /\ [][StoreNext]_vars

FileHasEntries(file) == file.kind = "yaml" /\ file.root = "mapping" /\ file.content # <<>>

FileParses(file) == file.kind = "yaml" /\ file.root \in {"none", "mapping"}

\* C15: a missing config.yml loads as the blank default without error; a
\* config.yml whose root is no mapping is the error "expected a top level
\* map" and no config; a missing hosts.yml is tolerated; an unreadable or
\* structurally invalid hosts.yml is an error and no config; an empty
\* config.yml is an empty mapping.
C15_ParseConfigErrors ==
    LET main == loadRet.files.main
        hosts == loadRet.files.hosts
        hostsFine == hosts.kind = "missing" \/ FileParses(hosts)
    IN
    loadRet.err # "none" =>
      /\ (main.kind = "missing" /\ hostsFine) =>
           /\ loadRet.err = "" /\ loadRet.loaded
           /\ SelectSeq(loadRet.content, LAMBDA n : n.key # "hosts") = NewBlankRoot
      /\ (main.kind = "yaml" /\ main.root = "scalar") =>
           loadRet.err = "expected a top level map" /\ ~loadRet.loaded
      /\ ((main.kind = "missing" \/ FileParses(main)) /\ hosts.kind = "missing") =>
           loadRet.err = "" /\ loadRet.loaded
      /\ ((main.kind = "missing" \/ FileParses(main)) /\ ~hostsFine) =>
           loadRet.err # "" /\ ~loadRet.loaded
      /\ (main.kind = "yaml" /\ main.root = "none" /\ hostsFine) =>
           /\ loadRet.err = "" /\ loadRet.loaded
           /\ SelectSeq(loadRet.content, LAMBDA n : n.key # "hosts") = <<>>

C15_Witness ==
    /\ loadRet.files.main.kind = "missing"
    /\ loadRet.files.hosts.kind = "missing"
    /\ loadRet.err = ""
    /\ loadRet.content = NewBlankRoot

StoredToken(child) == GetStringValue(child.entries, "token").value

\* C16: the token of every stored host is read back, from hosts.yml when it
\* has entries and otherwise from the `hosts` mapping embedded in config.yml;
\* hosts.yml is merged, as the first key `hosts`, exactly when it has entries.
C16_HostTokenReadable ==
    LET main == loadRet.files.main
        hosts == loadRet.files.hosts
        base == IF main.kind = "missing" THEN NewBlankRoot ELSE main.content
        embedded == IF NodeIndex(base, "hosts") = 0 THEN <<>>
                    ELSE base[NodeIndex(base, "hosts")].children
    IN
    loadRet.loaded =>
      IF FileHasEntries(hosts)
      THEN /\ \A i \in 1..Len(hosts.content) :
                TreeGet(loadRet.content, hosts.content[i].key, "token")
                  = StoredToken(hosts.content[i])
           /\ Head(loadRet.content).key = "hosts"
           /\ Head(loadRet.content).children = hosts.content
           /\ Tail(loadRet.content) = base
      ELSE /\ \A i \in 1..Len(embedded) :
                TreeGet(loadRet.content, embedded[i].key, "token") = StoredToken(embedded[i])
           /\ loadRet.content = base

C16_Witness ==
    /\ loadRet.loaded
    /\ Len(loadRet.files.hosts.content) = 2
    /\ NodeIndex(loadRet.files.main.content, "hosts") # 0
    /\ TreeGet(loadRet.content, KittyCADDefaultHost, "token") = "BLAH"
    /\ TreeGet(loadRet.content, "not.kittycad.io", "token") = "NOTTHIS"

HostKeys(children) == {children[i].key : i \in 1..Len(children)}

\* C17: after Set calls and a Write() that succeeded, config.yml has no
\* `hosts` key, hosts.yml holds exactly the hosts of the tree in document
\* order and nothing else, and is empty when the tree has no host.
C17_WriteSplits ==
    writePc = "done" =>
      /\ \A i \in 1..Len(cfgFiles.main.content) : cfgFiles.main.content[i].key # "hosts"
      /\ \A i \in 1..Len(root.content) :
           root.content[i].key # "hosts" =>
             \E j \in 1..Len(cfgFiles.main.content) : cfgFiles.main.content[j] = root.content[i]
      /\ [i \in 1..Len(cfgFiles.hosts.content) |->
             [host |-> cfgFiles.hosts.content[i].key,
              entries |-> cfgFiles.hosts.content[i].entries]] = ConfigOf(root.content).hosts
      /\ \A i \in 1..Len(cfgFiles.hosts.content) : cfgFiles.hosts.content[i].value = ""
      /\ ConfigOf(root.content).hosts = <<>> =>
           cfgFiles.hosts.root = "none" /\ cfgFiles.hosts.content = <<>>

C17_Witness ==
    /\ writePc = "done"
    /\ sets = 2
    /\ NodeIndex(loadRet.files.main.content, "hosts") # 0
    /\ HostKeys(cfgFiles.hosts.content) = {"not.kittycad.io", KittyCADDefaultHost, OtherHost}
    /\ cfgFiles.hosts.content[3].key = OtherHost
    /\ \E i \in 1..Len(cfgFiles.main.content) : cfgFiles.main.content[i] = ScalarNode("pager", "")

C19_HostsNeverAhead == cfgFiles.hosts.ver <= cfgFiles.main.ver

C19_Witness ==
    /\ writePc = "failed"
    /\ ~root.loaded
    /\ cfgFiles.main.ver = 1
    /\ cfgFiles.main.kind = "yaml"
    /\ cfgFiles.hosts.ver = 0

----------------------------------------------------------------------------
(***************************************************************************)
(* `kittycad alias set <alias> <expansion>`: cmd/alias/set/set.go and      *)
(* internal/config/alias_config.go.                                        *)
(*                                                                         *)
(* A command line is [bang, words, open]: whether it starts with "!", its  *)
(* words, and whether it ends inside an open quotation (shlex.Split then   *)
(* fails).  The main document is [above, node, entries, below]: its other  *)
(* top-level entries around the `aliases` key, whether the key is there,   *)
(* and the name/expansion pairs of the mapping in document order.          *)
(***************************************************************************)
MaxAliasCalls == 2

Line(ws) == [bang |-> FALSE, words |-> ws, open |-> FALSE]

Dash == Line(<<"-">>)

\* strings.HasPrefix(expansion, "!")
HasBangPrefix(line) == line.bang

\* "!" + expansion
PrependBang(line) == [line EXCEPT !.bang = TRUE]

\* shlex.Split: the words of the line; a leading "!" stays glued to the first
\* word, which is therefore never the name of a command.
shlexSplit(line) ==
    IF line.open THEN [err |-> TRUE, argv |-> <<>>]
    ELSE [err |-> FALSE,
          argv |-> IF line.bang THEN <<"!">> \o line.words ELSE line.words]

\* The command tree the root command holds: path |-> names of its children.
Children(path) ==
    IF path = <<>> THEN {"set", "file", "meta"}
    ELSE IF path = <<"file">> THEN {"convert", "status"}
    ELSE IF path = <<"meta">> THEN {"instance", "session"}
    ELSE {}

\* rootCmd.Traverse(split): the deepest command the leading words name.
RECURSIVE Traverse(_, _)
Traverse(path, args) ==
    IF args = <<>> THEN path
    ELSE IF Head(args) \in Children(path)
         THEN Traverse(Append(path, Head(args)), Tail(args))
         ELSE path

validCommand(line) ==
    LET split == shlexSplit(line)
    IN  /\ ~split.err
        /\ Traverse(<<>>, split.argv) # <<>>

AliasIndex(entries, name) ==
    IF \E i \in 1..Len(entries) : entries[i].name = name
    THEN CHOOSE i \in 1..Len(entries) :
            /\ entries[i].name = name
            /\ \A j \in 1..(i - 1) : entries[j].name # name
    ELSE 0

\* fileConfig.Aliases: binds the view; an absent `aliases` key is appended to the
\* root mapping, a present one keeps its place.
Aliases(a) ==
    IF a.node THEN a
    ELSE [above |-> a.above \o a.below, node |-> TRUE, entries |-> <<>>, below |-> <<>>]

\* AliasConfig.Get
AliasGet(a, name) ==
    LET i == AliasIndex(a.entries, name)
        value == IF a.entries = <<>> \/ i = 0 THEN EmptyLine ELSE a.entries[i].expansion
    IN  [value |-> value, ok |-> value # EmptyLine]

\* ConfigMap.SetStringValue on the aliases mapping
AliasSetStringValue(a, name, expansion) ==
    LET i == AliasIndex(a.entries, name)
    IN  IF i = 0
        THEN [a EXCEPT !.entries = Append(@, [name |-> name, expansion |-> expansion])]
        ELSE [a EXCEPT !.entries[i].expansion = expansion]

\* ConfigMap.RemoveEntry on the aliases mapping
AliasRemoveEntry(a, name) ==
    LET i == AliasIndex(a.entries, name)
    IN  IF i = 0 THEN a
        ELSE [a EXCEPT !.entries = SubSeq(@, 1, i - 1) \o SubSeq(@, i + 1, Len(@))]

\* AliasConfig.Delete: RemoveEntry, then the parent's Write(), which ends as `io`.
AliasDelete(a, name, io) ==
    [cfg |-> AliasRemoveEntry(a, name),
     wrote |-> TRUE,
     err |-> IF io = "ok" THEN "" ELSE "failed to write config"]

AliasAddWritesOnChange(a, name, expansion, io) ==
    [cfg |-> AliasSetStringValue(a, name, expansion),
     wrote |-> AliasSetStringValue(a, name, expansion) # a,
     err |-> IF io = "ok" \/ AliasSetStringValue(a, name, expansion) = a THEN ""
             ELSE "failed to write config"]

AliasAddMovesLast(a, name, expansion, io) ==
    [cfg |-> AliasSetStringValue(AliasRemoveEntry(a, name), name, expansion),
     wrote |-> TRUE,
     err |-> IF io = "ok" THEN "" ELSE "failed to write config"]

\* AliasConfig.Add: SetStringValue, then the parent's Write(), which ends as `io`.
AliasAdd(a, name, expansion, io) ==
    [cfg |-> AliasSetStringValue(a, name, expansion),
     wrote |-> TRUE,
     err |-> IF io = "ok" THEN "" ELSE "failed to write config"]

\* AliasConfig.All
AliasAll(a) == {<<a.entries[i].name, a.entries[i].expansion>> : i \in 1..Len(a.entries)}

AliasErr(msg, arg) == [msg |-> msg, arg |-> arg]

NoAliasErr == AliasErr("", EmptyLine)

IsCommandErr(name) == AliasErr("could not create alias: %q is already a kittycad command", name)

NoCommandErr(expansion) ==
    AliasErr("could not create alias: %s does not correspond to a kittycad command", expansion)

\* getExpansion
getExpansion(opts, stdin) ==
    IF opts.Expansion = Dash
    THEN IF stdin.err THEN [err |-> TRUE, expansion |-> EmptyLine]
         ELSE [err |-> FALSE, expansion |-> stdin.data]
    ELSE [err |-> FALSE, expansion |-> opts.Expansion]

AliasRun(a, err, wrote, out) == [cfg |-> a, err |-> err, wrote |-> wrote, out |-> out]

setRunExpansionFirst(opts, stdin, configOK, tty, a, io) ==
    LET bound == Aliases(a)
        got == getExpansion(opts, stdin)
        out1 == IF tty THEN <<"- Adding alias for">> ELSE <<>>
        isShell == opts.IsShell \/ HasBangPrefix(got.expansion)
        expansion == IF isShell THEN PrependBang(got.expansion) ELSE got.expansion
        old == AliasGet(bound, opts.Name)
        added == AliasAdd(bound, opts.Name, expansion, io)
    IN  IF ~configOK THEN AliasRun(a, AliasErr("config", EmptyLine), FALSE, <<>>)
        ELSE IF got.err
        THEN AliasRun(bound, AliasErr("did not understand expansion", EmptyLine), FALSE, <<>>)
        ELSE IF ~isShell /\ ~validCommand(expansion)
        THEN AliasRun(bound, NoCommandErr(expansion), FALSE, out1)
        ELSE IF validCommand(opts.Name)
        THEN AliasRun(bound, IsCommandErr(opts.Name), FALSE, out1)
        ELSE IF added.err # ""
        THEN AliasRun(added.cfg, AliasErr("could not create alias: failed to write config",
                                          EmptyLine), TRUE, out1)
        ELSE AliasRun(added.cfg, NoAliasErr, TRUE,
                      IF tty THEN Append(out1, IF old.ok THEN "Changed alias" ELSE "Added alias.")
                      ELSE out1)

setRun(opts, stdin, configOK, tty, a, io) ==
    LET bound == Aliases(a)
        got == getExpansion(opts, stdin)
        out1 == IF tty THEN <<"- Adding alias for">> ELSE <<>>
        isShell == opts.IsShell \/ HasBangPrefix(got.expansion)
        expansion == IF isShell THEN PrependBang(got.expansion) ELSE got.expansion
        old == AliasGet(bound, opts.Name)
        added == AliasAdd(bound, opts.Name, expansion, io)
    IN  IF ~configOK THEN AliasRun(a, AliasErr("config", EmptyLine), FALSE, <<>>)
        ELSE IF got.err
        THEN AliasRun(bound, AliasErr("did not understand expansion", EmptyLine), FALSE, <<>>)
        ELSE IF validCommand(opts.Name)
        THEN AliasRun(bound, IsCommandErr(opts.Name), FALSE, out1)
        ELSE IF ~isShell /\ ~validCommand(expansion)
        THEN AliasRun(bound, NoCommandErr(expansion), FALSE, out1)
        ELSE IF added.err # ""
        THEN AliasRun(added.cfg, AliasErr("could not create alias: failed to write config",
                                          EmptyLine), TRUE, out1)
        ELSE AliasRun(added.cfg, NoAliasErr, TRUE,
                      IF tty THEN Append(out1, IF old.ok THEN "Changed alias" ELSE "Added alias.")
                      ELSE out1)

AliasNames == {Line(<<"file">>), Line(<<"mi">>)}

AliasExpansions ==
    {Line(<<"meta", "instance">>), Line(<<"bogus">>),
     [bang |-> TRUE, words |-> <<"ls">>, open |-> FALSE],
     [bang |-> FALSE, words |-> <<"file">>, open |-> TRUE]}

AliasStdins ==
    {[err |-> TRUE, data |-> EmptyLine],
     [err |-> FALSE, data |-> Line(<<"file", "status">>)],
     [err |-> FALSE, data |-> Line(<<"bogus">>)]}

AliasSet ==
    /\ aliasCalls < MaxAliasCalls
    /\ \E name \in AliasNames, exp \in AliasExpansions \cup {Dash}, sh \in BOOLEAN,
          stdin \in AliasStdins, configOK \in BOOLEAN, tty \in BOOLEAN, io \in {"ok", "error"} :
          LET opts == [Name |-> name, Expansion |-> exp, IsShell |-> sh]
              r == setRun(opts, stdin, configOK, tty, aliasCfg, io)
          IN  /\ exp # Dash => stdin = [err |-> FALSE, data |-> Line(<<"bogus">>)]
              /\ aliasCfg' = r.cfg
              /\ aliasWrites' = aliasWrites + (IF r.wrote THEN 1 ELSE 0)
              /\ aliasCalls' = aliasCalls + 1
              /\ aliasSaved' = IF r.wrote THEN [attempted |-> TRUE, doc |-> r.cfg]
                               ELSE aliasSaved
              /\ aliasRet' = [called |-> TRUE, opts |-> opts, stdin |-> stdin,
                              configOK |-> configOK, tty |-> tty, before |-> aliasCfg,
                              err |-> r.err, wrote |-> r.wrote, out |-> r.out]
    /\ UNCHANGED <<notAliasVars, aliasOp>>

\* The configs of the tests: no `aliases` key, an empty one, one alias, and the
\* seed alias of the blank config; and a document with two aliases between
\* other keys.
AliasConfigs ==
    {NoAliases,
     [NoAliases EXCEPT !.above = <<[key |-> "pager", value |-> "less"]>>],
     [NoAliases EXCEPT !.node = TRUE, !.below = <<[key |-> "pager", value |-> "more"]>>],
     [NoAliases EXCEPT !.node = TRUE,
        !.entries = <<[name |-> Line(<<"mi">>), expansion |-> Line(<<"meta", "session">>)]>>],
     [above |-> <<[key |-> "prompt", value |-> "enabled"], [key |-> "pager", value |-> ""]>>,
      node |-> TRUE,
      entries |-> <<[name |-> Line(<<"co">>), expansion |-> Line(<<"file", "convert">>)]>>,
      below |-> <<[key |-> "browser", value |-> ""]>>],
     [above |-> <<[key |-> "prompt", value |-> "disabled"]>>,
      node |-> TRUE,
      entries |-> <<[name |-> Line(<<"mi">>), expansion |-> Line(<<"meta", "session">>)],
                    [name |-> Line(<<"co">>), expansion |-> Line(<<"file", "convert">>)]>>,
      below |-> <<[key |-> "pager", value |-> "more"]>>]}

AliasInit ==
    /\ aliasCfg \in AliasConfigs
    /\ aliasWrites = 0
    /\ aliasCalls = 0
    /\ aliasRet = NoAliasRun
    /\ aliasOp = NoAliasOp
    /\ aliasSaved = [attempted |-> FALSE, doc |-> NoAliases]
    /\ CoreIdle
    /\ UpdateIdle
    /\ DirIdle
    /\ StoreIdle
    /\ ConfIdle
    /\ RaceIdle

AliasNext == AliasSet

SpecAlias == AliasInit /\ [][AliasNext]_vars

\* The expansion the latest run worked on, and whether it was a shell expansion.
RunExpansion ==
    IF aliasRet.opts.Expansion = Dash THEN aliasRet.stdin.data ELSE aliasRet.opts.Expansion

RunIsShell == aliasRet.opts.IsShell \/ HasBangPrefix(RunExpansion)

RunLeftAliasesAlone ==
    /\ AliasAll(aliasCfg) = AliasAll(aliasRet.before)
    /\ ~aliasRet.wrote

\* C20 (as stated): `alias set` fails with "... is already a kittycad command"
\* whenever the name resolves to a subcommand, and with "... does not correspond
\* to a kittycad command" whenever the expansion is not a shell expansion and does
\* not resolve; in both cases the aliases are unchanged and Write() was not called.
C20_Rejects ==
    aliasRet.called =>
        /\ validCommand(aliasRet.opts.Name) =>
              /\ aliasRet.err = IsCommandErr(aliasRet.opts.Name)
              /\ RunLeftAliasesAlone
        /\ (~RunIsShell /\ ~validCommand(RunExpansion)) =>
              /\ aliasRet.err = NoCommandErr(RunExpansion)
              /\ RunLeftAliasesAlone

\* The run got past loading the config and reading the expansion.
RunReachedValidation ==
    /\ aliasRet.called
    /\ aliasRet.configOK
    /\ ~(aliasRet.opts.Expansion = Dash /\ aliasRet.stdin.err)

\* C20 (amended): once the config is loaded and the expansion read, `alias set`
\* fails with "... is already a kittycad command" when the name resolves to a
\* subcommand, and with "... does not correspond to a kittycad command" when the
\* name does not resolve and the expansion is not a shell expansion and does not
\* resolve either; in both cases the aliases are unchanged and Write() was not
\* called.
C20_RejectsInOrder ==
    RunReachedValidation =>
        /\ validCommand(aliasRet.opts.Name) =>
              /\ aliasRet.err = IsCommandErr(aliasRet.opts.Name)
              /\ RunLeftAliasesAlone
        /\ (~validCommand(aliasRet.opts.Name) /\ ~RunIsShell /\ ~validCommand(RunExpansion)) =>
              /\ aliasRet.err = NoCommandErr(RunExpansion)
              /\ RunLeftAliasesAlone

\* A second run on a config that holds aliases is refused for its name although
\* its expansion does not resolve either.
C20_Witness ==
    /\ RunReachedValidation
    /\ aliasCalls = 2
    /\ aliasRet.before.entries # <<>>
    /\ validCommand(aliasRet.opts.Name)
    /\ ~RunIsShell
    /\ ~validCommand(RunExpansion)
    /\ aliasRet.err = IsCommandErr(aliasRet.opts.Name)
    /\ aliasWrites = 1

----------------------------------------------------------------------------
(***************************************************************************)
(* The AliasConfig on its own: Add, Delete and All called in any order on  *)
(* the view that fileConfig.Aliases bound.                                 *)
(***************************************************************************)
MaxAliasOps == 3

AliasOpNames == {Line(<<"mi">>), Line(<<"fc">>), Line(<<"co">>)}

AliasOpExpansions == {Line(<<"meta", "instance">>), Line(<<"file", "convert">>)}

\* The aliases as the document has them, first to last.
AliasDocOrder(a) == [i \in 1..Len(a.entries) |-> <<a.entries[i].name, a.entries[i].expansion>>]

\* AliasConfig.All returns a Go map: what a caller ranging over it can see is the
\* pairs in any order.
AliasAllOrders(a) ==
    {o \in [1..Cardinality(AliasAll(a)) -> AliasAll(a)] :
        \A i, j \in DOMAIN o : o[i] = o[j] => i = j}

AliasOpDone(kind, name, expansion, io, r, listed) ==
    /\ aliasCalls < MaxAliasOps
    /\ aliasCalls' = aliasCalls + 1
    /\ aliasCfg' = r.cfg
    /\ aliasWrites' = aliasWrites + (IF r.wrote THEN 1 ELSE 0)
    /\ aliasSaved' = IF r.wrote THEN [attempted |-> TRUE, doc |-> r.cfg] ELSE aliasSaved
    /\ aliasOp' = [kind |-> kind, name |-> name, expansion |-> expansion,
                   before |-> aliasCfg, writesBefore |-> aliasWrites, io |-> io,
                   err |-> r.err, listed |-> listed]
    /\ UNCHANGED <<notAliasVars, aliasRet>>

CallAliasAdd ==
    \E name \in AliasOpNames, expansion \in AliasOpExpansions, io \in {"ok", "error"} :
        AliasOpDone("Add", name, expansion, io,
                    AliasAdd(Aliases(aliasCfg), name, expansion, io), <<>>)

CallAliasDelete ==
    \E name \in AliasOpNames, io \in {"ok", "error"} :
        AliasOpDone("Delete", name, EmptyLine, io,
                    AliasDelete(Aliases(aliasCfg), name, io), <<>>)

CallAliasAll ==
    \E listed \in AliasAllOrders(Aliases(aliasCfg)) :
        AliasOpDone("All", EmptyLine, EmptyLine, "ok",
                    [cfg |-> Aliases(aliasCfg), wrote |-> FALSE, err |-> ""], listed)

AliasConfigNext == CallAliasAdd \/ CallAliasDelete \/ CallAliasAll

SpecAliasConfig == AliasInit /\ [][AliasConfigNext]_vars

RunStored == IF RunIsShell THEN PrependBang(RunExpansion) ELSE RunExpansion

\* C22: after an `alias set` that got as far as adding, the other top-level
\* entries of the main document keep their values and order, an `aliases` key
\* that was there keeps its place, every other alias keeps its expansion and
\* place, an existing alias is replaced in place and a new one is appended last;
\* that is the document Write() was given.
C22_OthersUndisturbed ==
    (aliasRet.called /\ aliasRet.wrote) =>
        LET b == aliasRet.before
            i == AliasIndex(b.entries, aliasRet.opts.Name)
            e == [name |-> aliasRet.opts.Name, expansion |-> RunStored]
        IN  /\ aliasCfg.above \o aliasCfg.below = b.above \o b.below
            /\ b.node => (aliasCfg.above = b.above /\ aliasCfg.below = b.below)
            /\ ~b.node => aliasCfg.below = <<>>
            /\ aliasCfg.node
            /\ IF i = 0 THEN aliasCfg.entries = Append(b.entries, e)
               ELSE /\ Len(aliasCfg.entries) = Len(b.entries)
                    /\ aliasCfg.entries[i] = e
                    /\ \A j \in 1..Len(b.entries) : j # i => aliasCfg.entries[j] = b.entries[j]
            /\ aliasSaved = [attempted |-> TRUE, doc |-> aliasCfg]

\* The second run replaces the first of two aliases with another expansion.
C22_Witness ==
    /\ aliasRet.called
    /\ aliasRet.wrote
    /\ aliasCalls = 2
    /\ Len(aliasRet.before.entries) = 2
    /\ AliasIndex(aliasRet.before.entries, aliasRet.opts.Name) = 1
    /\ aliasCfg.entries[1].expansion # aliasRet.before.entries[1].expansion
    /\ aliasCfg.above # <<>>
    /\ aliasCfg.below # <<>>

\* C23: what a caller of All() sees is the aliases in document order, one entry
\* for each alias of the document.
C23_AllInDocumentOrder ==
    aliasOp.kind = "All" => aliasOp.listed = AliasDocOrder(aliasCfg)

----------------------------------------------------------------------------
(***************************************************************************)
(* `kittycad config get` and `kittycad config set` on a config.Stub:       *)
(* cmd/config/get/get.go, internal/config/config.go (options and their     *)
(* validation) and internal/config/from_env.go (Stub).  The stub is the    *)
(* set of its <<host, key, value>> entries.                                *)
(***************************************************************************)
MaxConfCalls == 3

\* An allow-list is [nil, values]: a nil slice, or the values of the slice.
NilValues == [nil |-> TRUE, values |-> <<>>]

configOptions ==
    <<[Key |-> "prompt", DefaultValue |-> "enabled",
       AllowedValues |-> [nil |-> FALSE, values |-> <<"enabled", "disabled">>]],
      [Key |-> "pager", DefaultValue |-> "", AllowedValues |-> NilValues],
      [Key |-> "browser", DefaultValue |-> "", AllowedValues |-> NilValues]>>

ValidateKey(key) ==
    IF \E i \in 1..Len(configOptions) : configOptions[i].Key = key THEN "" ELSE "invalid key"

SeqContains(seq, v) == \E i \in 1..Len(seq) : seq[i] = v

ValidateValueKnownKeysOnly(key, value) ==
    LET found == {i \in 1..Len(configOptions) : configOptions[i].Key = key}
        validValues ==
            IF found = {} THEN NilValues
            ELSE configOptions[CHOOSE i \in found : \A j \in found : i <= j].AllowedValues
    IN  IF found # {} /\ validValues.nil THEN [err |-> "", ValidValues |-> <<>>]
        ELSE IF SeqContains(validValues.values, value) THEN [err |-> "", ValidValues |-> <<>>]
        ELSE [err |-> "invalid value", ValidValues |-> validValues.values]

ValidateValue(key, value) ==
    LET found == {i \in 1..Len(configOptions) : configOptions[i].Key = key}
        validValues ==
            IF found = {} THEN NilValues
            ELSE configOptions[CHOOSE i \in found : \A j \in found : i <= j].AllowedValues
    IN  IF validValues.nil THEN [err |-> "", ValidValues |-> <<>>]
        ELSE IF SeqContains(validValues.values, value) THEN [err |-> "", ValidValues |-> <<>>]
        ELSE [err |-> "invalid value", ValidValues |-> validValues.values]

\* Stub.GetWithSource / Stub.Get
StubGet(c, host, key) ==
    IF \E t \in c : t[1] = host /\ t[2] = key
    THEN [val |-> (CHOOSE t \in c : t[1] = host /\ t[2] = key)[3], err |-> ""]
    ELSE [val |-> "", err |-> "not found"]

\* Stub.Set
StubSet(c, host, key, value) ==
    {t \in c : t[1] # host \/ t[2] # key} \cup {<<host, key, value>>}

\* Stub.Write
StubWrite(c) == StubSet(c, "", "_written", "true")

ConfErr(msg, key, value, valid) == [msg |-> msg, key |-> key, value |-> value, valid |-> valid]

ConfRun(c, n, out, errOut, err) ==
    [cfg |-> c, writes |-> n, stdout |-> out, stderr |-> errOut, err |-> err]

\* getRun
getRun(opts, c) ==
    LET got == StubGet(c, opts.Hostname, opts.Key)
    IN  IF got.err # "" THEN ConfRun(c, 0, <<>>, <<>>, ConfErr(got.err, "", "", <<>>))
        ELSE ConfRun(c, 0, IF got.val # "" THEN <<got.val>> ELSE <<>>, <<>>, NoConfErr)

\* setRun of `config set`: a warning for an unknown key, the value validated,
\* then Set and Write.
configSetRunWithoutWrite(opts, c) ==
    LET warn == IF ValidateKey(opts.Key) # ""
                THEN <<[msg |-> "! warning: '%s' is not a known configuration key",
                        key |-> opts.Key]>>
                ELSE <<>>
        valid == ValidateValue(opts.Key, opts.Value)
    IN  IF valid.err # ""
        THEN ConfRun(c, 0, <<>>, warn,
                     ConfErr("failed to set %q to %q: valid values are %v",
                             opts.Key, opts.Value, valid.ValidValues))
        ELSE ConfRun(StubSet(c, opts.Hostname, opts.Key, opts.Value), 0, <<>>, warn,
                     NoConfErr)

configSetRun(opts, c) ==
    LET warn == IF ValidateKey(opts.Key) # ""
                THEN <<[msg |-> "! warning: '%s' is not a known configuration key",
                        key |-> opts.Key]>>
                ELSE <<>>
        valid == ValidateValue(opts.Key, opts.Value)
    IN  IF valid.err # ""
        THEN ConfRun(c, 0, <<>>, warn,
                     ConfErr("failed to set %q to %q: valid values are %v",
                             opts.Key, opts.Value, valid.ValidValues))
        ELSE ConfRun(StubWrite(StubSet(c, opts.Hostname, opts.Key, opts.Value)), 1, <<>>, warn,
                     NoConfErr)

ConfHosts == {"", KittyCADDefaultHost}

ConfKeys == {"prompt", "pager", "unknownKey"}

ConfValues == {"enabled", "invalid", "more", ""}

ConfDone(cmd, opts, r) ==
    /\ confCalls < MaxConfCalls
    /\ confCalls' = confCalls + 1
    /\ stub' = r.cfg
    /\ stubWrites' = stubWrites + r.writes
    /\ confRet' = [cmd |-> cmd, opts |-> opts, before |-> stub, writesBefore |-> stubWrites,
                   stdout |-> r.stdout, stderr |-> r.stderr, err |-> r.err]
    /\ UNCHANGED notConfVars

ConfigGet ==
    \E h \in ConfHosts, k \in ConfKeys :
        LET opts == [Hostname |-> h, Key |-> k, Value |-> ""]
        IN  ConfDone("get", opts, getRun(opts, stub))

ConfigSet ==
    \E h \in ConfHosts, k \in ConfKeys, v \in ConfValues :
        LET opts == [Hostname |-> h, Key |-> k, Value |-> v]
        IN  ConfDone("set", opts, configSetRun(opts, stub))

\* The stubs of the tests.
Stubs ==
    {{}, {<<"", "pager", "cat">>},
     {<<"", "pager", "cat">>, <<KittyCADDefaultHost, "pager", "more">>}}

ConfInit ==
    /\ stub \in Stubs
    /\ stubWrites = 0
    /\ confCalls = 0
    /\ confRet = NoConfRun
    /\ CoreIdle
    /\ UpdateIdle
    /\ DirIdle
    /\ StoreIdle
    /\ AliasIdle
    /\ RaceIdle

ConfNext == ConfigGet \/ ConfigSet

SpecConfCmd == ConfInit /\ [][ConfNext]_vars

\* C24: ValidateValue accepts every value for a key without allow-list, a key
\* that is not registered included, and for `prompt` exactly the values enabled
\* and disabled; a `config set` of another value for `prompt` fails with "failed
\* to set ... valid values are", naming both allowed values, and any other
\* `config set` does not fail.
C24_ClosedEnum ==
    /\ \A k \in ConfKeys \cup {"browser"}, v \in ConfValues \cup {"disabled"} :
          (ValidateValue(k, v).err = "") <=> (k # "prompt" \/ v \in {"enabled", "disabled"})
    /\ confRet.cmd = "set" =>
          IF confRet.opts.Key = "prompt" /\ confRet.opts.Value \notin {"enabled", "disabled"}
          THEN confRet.err = ConfErr("failed to set %q to %q: valid values are %v", "prompt",
                                     confRet.opts.Value, <<"enabled", "disabled">>)
          ELSE confRet.err = NoConfErr

\* `config set prompt invalid` after an earlier command.
C24_Witness ==
    /\ confRet.cmd = "set"
    /\ confCalls = 2
    /\ confRet.opts.Key = "prompt"
    /\ confRet.opts.Value = "invalid"
    /\ confRet.err.valid = <<"enabled", "disabled">>
    /\ stub = confRet.before

----------------------------------------------------------------------------
(***************************************************************************)
(* mainRun starts the update-check goroutine, which calls StateDir(), and  *)
(* goes on to load the configuration, which calls Dir().  The two calls    *)
(* run concurrently on one filesystem; each stat, mkdir and rename is a    *)
(* step of its own.  Positions: "call", "auto" (autoMigrate...),           *)
(* "migrate" (migrateDir / migrateFile), "mkdir", "rename", "done".        *)
(***************************************************************************)
RaceProcs == {"main", "upd"}

\* The directory a process resolves: Dir() on the main path, StateDir() in the
\* goroutine.
RacePath(p) == IF p = "main" THEN DirPath(dirEnv) ELSE StateDirPath(dirEnv)

RaceAt(p, pc) ==
    /\ racePc' = [racePc EXCEPT ![p] = pc]
    /\ UNCHANGED <<coreVars, updateVars, storeVars, aliasVars, confVars, dirEnv, dirRet,
                   dirFirst, raceStart>>

\* Dir / StateDir: the path, and whether a migration is to be tried.
RaceCall ==
    \E p \in RaceProcs :
        /\ racePc[p] = "call"
        /\ dirFs' = dirFs
        /\ IF /\ ~dirExists(dirFs, RacePath(p))
              /\ (p = "main" => dirEnv.KITTYCAD_CONFIG_DIR = <<>>)
           THEN RaceAt(p, "auto")
           ELSE RaceAt(p, "done")

\* autoMigrateConfigDir / autoMigrateStateDir
RaceAuto ==
    \E p \in RaceProcs :
        /\ racePc[p] = "auto"
        /\ dirFs' = dirFs
        /\ IF ~UserHomeDir(dirEnv).err /\ dirExists(dirFs, LegacyPath(dirEnv))
           THEN RaceAt(p, "migrate")
           ELSE RaceAt(p, "done")

\* migrateDir / migrateFile up to their stat of the source.
RaceMigrate ==
    \E p \in RaceProcs :
        /\ racePc[p] = "migrate"
        /\ dirFs' = dirFs
        /\ IF LegacyPath(dirEnv) = RacePath(p) THEN RaceAt(p, "done")
           ELSE IF p = "main" /\ ~dirExists(dirFs, LegacyPath(dirEnv)) THEN RaceAt(p, "done")
           ELSE IF p = "upd" /\ ~fileExists(dirFs, LegacyPath(dirEnv)) THEN RaceAt(p, "done")
           ELSE RaceAt(p, "mkdir")

\* os.MkdirAll(filepath.Dir(newPath)) / os.MkdirAll(filepath.Dir(newFile))
RaceMkdir ==
    \E p \in RaceProcs :
        /\ racePc[p] = "mkdir"
        /\ dirFs' = MkdirAll(dirFs, IF p = "main" THEN ParentDir(RacePath(p)) ELSE RacePath(p))
        /\ RaceAt(p, "rename")

\* os.Rename(oldPath, newPath) / os.Rename(oldFile, newFile)
RaceRename ==
    \E p \in RaceProcs :
        /\ racePc[p] = "rename"
        /\ dirFs' = IF p = "main"
                    THEN RenameDir(dirFs, LegacyPath(dirEnv), RacePath(p)).f
                    ELSE RenameFile(dirFs, LegacyPath(dirEnv), RacePath(p)).f
        /\ RaceAt(p, "done")

RaceEnvironments ==
    [KITTYCAD_CONFIG_DIR : {<<>>},
     XDG_CONFIG_HOME : {<<>>, <<"xdg">>},
     XDG_STATE_HOME : {<<>>, <<"state">>},
     XDG_DATA_HOME : {<<>>},
     AppData : {<<>>},
     LocalAppData : {<<>>},
     HOME : {<<"home">>},
     GOOS : {"linux"}]

RaceInit ==
    /\ dirEnv \in RaceEnvironments
    /\ dirFs \in DirFilesystems(dirEnv)
    /\ raceStart = dirFs
    /\ racePc = [main |-> "call", upd |-> "call"]
    /\ dirRet = NoDirCall
    /\ dirFirst = [o \in DirFunctions |-> {}]
    /\ CoreIdle
    /\ UpdateIdle
    /\ StoreIdle
    /\ AliasIdle
    /\ ConfIdle

RaceNext == RaceCall \/ RaceAuto \/ RaceMigrate \/ RaceMkdir \/ RaceRename

SpecRace == RaceInit /\ [][RaceNext]_vars

\* The legacy directory held state.yml, neither resolved directory existed, both
\* XDG variables are set and the filesystem works.
RaceLegacyToMigrate ==
    /\ dirEnv.XDG_CONFIG_HOME # <<>>
    /\ dirEnv.XDG_STATE_HOME # <<>>
    /\ raceStart.io = "ok"
    /\ LegacyPath(dirEnv) \in raceStart.files
    /\ DirPath(dirEnv) \notin raceStart.dirs
    /\ StateDirPath(dirEnv) \notin raceStart.dirs

\* C27: however the goroutine's StateDir() and the main path's Dir() interleave,
\* once both have returned a legacy directory that held state.yml has been
\* migrated the same way: state.yml is in the resolved state directory and the
\* legacy directory has become the resolved config directory.
C27_MigrationOrderIndependent ==
    (RaceLegacyToMigrate /\ racePc = [main |-> "done", upd |-> "done"]) =>
        /\ dirFs.files = {StateDirPath(dirEnv)}
        /\ DirPath(dirEnv) \in dirFs.dirs
        /\ LegacyPath(dirEnv) \notin dirFs.dirs

----------------------------------------------------------------------------
(* The auth commands and what they persist *)

\* The positions of the trace at which the running command called op.
TraceCalls(op) == {i \in 1..Len(trace) : trace[i].op = op}

\* The latest command is an `auth login` without --with-token: the one that
\* goes through Flow.
InteractiveLogin == ret.op = "login" /\ cmdOpts.Token = ""

\* C28: in the login flow Write() is called at most once, as the last call, and
\* only after the typed token was set and the session request answered (the
\* session's user was set); a flow that failed at the prompt, at the client or
\* at the session request has called no Write(), and without a Write() the
\* documents on disk are the ones the command found.
C28_WriteAfterValidation ==
    InteractiveLogin =>
        /\ Cardinality(TraceCalls("Write")) <= 1
        /\ \A i \in TraceCalls("Write") :
              /\ i = Len(trace)
              /\ \E j, k \in 1..(i - 1) :
                    /\ j < k
                    /\ trace[j] = Traced("Set", cmdHost, "token", "")
                    /\ trace[k] = Traced("Set", cmdHost, "user", "")
        /\ (cmdPc = "done" /\ cmdRet \in {"could not prompt", "ClientError", "HTTPError"}) =>
              TraceCalls("Write") = {}
        /\ TraceCalls("Write") = {} => disk = ret.diskBefore

\* The session request failed after the typed token had been set in memory.
C28_Witness ==
    /\ InteractiveLogin
    /\ cmdPc = "done"
    /\ cmdRet = "HTTPError"
    /\ trace[Len(trace)] = Traced("Set", cmdHost, "token", "")
    /\ cfg # ret.before
    /\ disk = ret.diskBefore
    /\ disk.hosts # <<>>

\* C29: `auth logout` calls UnsetHost at most once, for the selected host, and
\* only after the host list was found non-empty with the host in it, after
\* CheckWriteable and the user lookup succeeded and, where it can prompt, after
\* the user confirmed; Write() follows at once and nothing but that host's
\* entry has left the config.  In every other outcome the config in memory and
\* the documents on disk are as the command found them.
C29_LogoutOnlyAfterChecks ==
    ret.op = "logout" =>
        /\ Cardinality(TraceCalls("UnsetHost")) <= 1
        /\ TraceCalls("UnsetHost") = {} =>
              /\ cfg = ret.before
              /\ disk = ret.diskBefore
              /\ TraceCalls("Write") = {}
        /\ \A i \in TraceCalls("UnsetHost") :
              /\ trace[i].host = cmdHost
              /\ cmdOpts.Hostname \in {"", cmdHost}
              /\ \E n \in 1..Len(EnvHosts(env, ret.before).list) :
                    EnvHosts(env, ret.before).list[n] = cmdHost
              /\ \E j \in 1..(i - 1) : trace[j] = Traced("CheckWriteable", cmdHost, "token", "")
              /\ \E j \in 1..(i - 1) : trace[j] = Traced("GetSelf", cmdHost, "", "")
              /\ cmdOpts.CanPrompt =>
                    \E j \in 1..(i - 1) : trace[j] = Traced("Confirm", cmdHost, "", "yes")
              /\ Len(trace) = i + 1
              /\ trace[i + 1].op = "Write"
              /\ cfg.main = ret.before.main
              /\ cfg.hosts = SelectSeq(ret.before.hosts, LAMBDA e : e.host # cmdHost)

\* One of two hosts is logged out of after the user confirmed.
C29_Witness ==
    /\ ret.op = "logout"
    /\ cmdPc = "done"
    /\ cmdRet = ""
    /\ cmdOpts.CanPrompt
    /\ TraceCalls("UnsetHost") # {}
    /\ Len(ret.before.hosts) = 2
    /\ Len(cfg.hosts) = 1
    /\ disk = cfg

FileTokenOf(c, hostname) ==
    IF HostIndex(c.hosts, hostname) = 0
    THEN ""
    ELSE GetStringValue(c.hosts[HostIndex(c.hosts, hostname)].entries, "token").value

ClientHost == IF ret.host = "" THEN EnvDefaultHost(env, cfg).val ELSE ret.host

====
